---- MODULE Spec2Model ----
(***************************************************************************)
(* A model of microsearch (src/microsearch.py): the segment store, the     *)
(* document store, the stats record, the indexer and the searcher.         *)
(*                                                                         *)
(* Strings are sequences of one-character strings, compared by code point  *)
(* as Python compares str.  A Python dict is the sequence of its           *)
(* (key, value) pairs in insertion order; two dicts are equal when they    *)
(* hold the same pairs, whatever the order (DictEq).  A file system        *)
(* directory is a function from the names of the files that exist to       *)
(* their contents.                                                         *)
(***************************************************************************)
EXTENDS Integers, Sequences, FiniteSets, TLC

\* ------------------------------------------------------------------ bounds
\* Positions range over 0..MaxPos.
MaxPos == 1
\* The number of calls of one behaviour, after those of its history.
MaxOps == 1
\* The write to the temporary file that may fail is among the first MaxFaultWrite.
MaxFaultWrite == 1
\* The save_segment call of an index call that may fail is among the first
\* MaxFaultCall.
MaxFaultCall == 2
MaxBlob == 4
MaxTokens == 3
MaxLines == 3
\* The largest total_docs an increment starts from.
MaxTotal == 3
\* The calls of index that are taken step by step.
MaxCalls == 2

\* ----------------------------------------------------------------- strings
\* The letters and digits in code point order.
Lower ==
  << "a", "b", "c", "d", "e", "f", "g", "h", "i", "j", "k", "l", "m",
     "n", "o", "p", "q", "r", "s", "t", "u", "v", "w", "x", "y", "z" >>

Upper ==
  << "A", "B", "C", "D", "E", "F", "G", "H", "I", "J", "K", "L", "M",
     "N", "O", "P", "Q", "R", "S", "T", "U", "V", "W", "X", "Y", "Z" >>

Digits == << "0", "1", "2", "3", "4", "5", "6", "7", "8", "9" >>

IndexOf(seq, c) == CHOOSE i \in 1..Len(seq) : seq[i] = c

IsIn(seq, c) == \E i \in 1..Len(seq) : seq[i] = c

\* Python's ord() on the characters of the model.
ord(c) ==
  IF IsIn(Lower, c) THEN 96 + IndexOf(Lower, c)
  ELSE IF IsIn(Upper, c) THEN 64 + IndexOf(Upper, c)
  ELSE IF IsIn(Digits, c) THEN 47 + IndexOf(Digits, c)
  ELSE CASE c = "\t" -> 9
         [] c = "\n" -> 10
         [] c = " "  -> 32
         [] c = "!"  -> 33
         [] c = "'"  -> 39
         [] c = ","  -> 44
         [] c = "-"  -> 45
         [] c = "."  -> 46
         [] c = "?"  -> 63
         [] c = "\\" -> 92
         [] c = "_"  -> 95

\* a > b with the operands exchanged.
RECURSIVE StrGreater_reversed(_, _)
StrGreater_reversed(a, b) ==
  IF b = <<>> THEN FALSE
  ELSE IF a = <<>> THEN TRUE
  ELSE IF a[1] = b[1] THEN StrGreater_reversed(Tail(a), Tail(b))
  ELSE ord(b[1]) > ord(a[1])

\* Python's a > b on str: lexicographic, by code point.
RECURSIVE StrGreater(_, _)
StrGreater(a, b) ==
  IF a = <<>> THEN FALSE
  ELSE IF b = <<>> THEN TRUE
  ELSE IF a[1] = b[1] THEN StrGreater(Tail(a), Tail(b))
  ELSE ord(a[1]) > ord(b[1])

\* The terms of the model.  fun, eybo and gmmk share one segment file, avo
\* and muk share another (their MD5 digests agree in the first 6 hex digits).
eybo == << "e", "y", "b", "o" >>
fun  == << "f", "u", "n" >>
gmmk == << "g", "m", "m", "k" >>
avo  == << "a", "v", "o" >>
muk  == << "m", "u", "k" >>
funk == << "f", "u", "n", "k" >>

\* agnid and agnidi share a segment file too, and one is a prefix of the other.
agnid  == << "a", "g", "n", "i", "d" >>
agnidi == << "a", "g", "n", "i", "d", "i" >>

\* The document ids of the model.
d1 == << "d", "1" >>
d2 == << "2" >>

\* ------------------------------------------------------------- Python dict
\* dict: a sequence of <<key, value>> pairs with distinct keys.
dict_keys(d) == { d[i][1] : i \in 1..Len(d) }

dict_has(d, k) == k \in dict_keys(d)

dict_get(d, k) == d[CHOOSE i \in 1..Len(d) : d[i][1] = k][2]

\* d[k] = v: replaces the value in place, or appends the new key.
dict_set(d, k, v) ==
  IF dict_has(d, k)
  THEN [i \in 1..Len(d) |-> IF d[i][1] = k THEN <<k, v>> ELSE d[i]]
  ELSE Append(d, <<k, v>>)

\* The mapping a dict stands for: Python's == on dicts compares these.
dict_map(d) == [k \in dict_keys(d) |-> dict_get(d, k)]

DictEq(a, b) == dict_map(a) = dict_map(b)

\* set(list) and list(set).  The order in which a set is listed is not
\* fixed by the language: it is the order of the listing `order`, which an
\* action chooses among the permutations of the positions.
set_of(list) == { list[i] : i \in 1..Len(list) }

list_of(set, order) == SelectSeq(order, LAMBDA x : x \in set)

Positions == 0..MaxPos

Orders ==
  { o \in [1..Cardinality(Positions) -> Positions] :
      \A i, j \in DOMAIN o : i # j => o[i] # o[j] }

\* -------------------------------------------------------------------- JSON
\* A JSON text is an object text (its members in the order written) or a
\* text that does not parse.
json_dumps(d) == [kind |-> "object", members |-> d]

InvalidJson == [kind |-> "invalid", members |-> <<>>]

RECURSIVE json_members(_, _)
json_members(members, acc) ==
  IF members = <<>> THEN acc
  ELSE json_members(Tail(members), dict_set(acc, members[1][1], members[1][2]))

\* json.loads: ok = FALSE stands for the ValueError of a text that does not parse.
json_loads(text) ==
  IF text.kind = "object"
  THEN [ok |-> TRUE, value |-> json_members(text.members, <<>>)]
  ELSE [ok |-> FALSE, value |-> <<>>]

\* ----------------------------------------------------------------- records
\* A segment line "<head><json text>\n": head holds the characters that
\* precede the JSON text, the tab included.
make_record(term, term_info) ==
  [head |-> term \o << "\t" >>, json |-> json_dumps(term_info)]

\* The place of the first tab of s, 0 when s holds none.
FirstTab(s) ==
  IF \E i \in 1..Len(s) : s[i] = "\t"
  THEN CHOOSE i \in 1..Len(s) : s[i] = "\t" /\ \A j \in 1..(i - 1) : s[j] # "\t"
  ELSE 0

\* line.rstrip().split('\t', 1): one field when the line holds no tab, else
\* the text before the first tab and the text after it (which is the JSON
\* text when nothing stands between the tab and it).
parse_record(line) ==
  LET i == FirstTab(line.head) IN
    IF i = 0 THEN << line.head >>
    ELSE << SubSeq(line.head, 1, i - 1),
            IF i = Len(line.head) THEN line.json ELSE InvalidJson >>

\* ---------------------------------------------------------------- segments
\* hash_name: the first 6 hex digits of the MD5 digest of the term (or of
\* the document id), tabulated for the strings of the model.
hash_name(term) ==
  CASE term = fun  -> "77004e"
    [] term = eybo -> "77004e"
    [] term = gmmk -> "77004e"
    [] term = avo  -> "b60fb7"
    [] term = muk  -> "b60fb7"
    [] term = funk -> "e8916f"
    [] term = agnid  -> "000091"
    [] term = agnidi -> "000091"
    [] term = d1   -> "9948c6"
    [] term = d2   -> "c81e72"

make_segment_name(term) == hash_name(term)

\* dict.update in place of the union: the new positions replace the old.
RECURSIVE update_term_info_replace(_, _, _)
update_term_info_replace(orig_info, new_info, order) ==
  IF new_info = <<>> THEN orig_info
  ELSE update_term_info_replace(dict_set(orig_info, new_info[1][1], new_info[1][2]),
                                Tail(new_info), order)

\* set.symmetric_difference in place of set.union.
RECURSIVE update_term_info_symdiff(_, _, _)
update_term_info_symdiff(orig_info, new_info, order) ==
  IF new_info = <<>> THEN orig_info
  ELSE
    LET doc_id    == new_info[1][1]
        positions == new_info[1][2]
        merged    == IF ~dict_has(orig_info, doc_id)
                     THEN dict_set(orig_info, doc_id, positions)
                     ELSE dict_set(orig_info, doc_id,
                            list_of((set_of(dict_get(orig_info, doc_id))
                                       \ set_of(positions))
                                    \cup (set_of(positions)
                                            \ set_of(dict_get(orig_info, doc_id))),
                                    order))
    IN update_term_info_symdiff(merged, Tail(new_info), order)

RECURSIVE update_term_info(_, _, _)
update_term_info(orig_info, new_info, order) ==
  IF new_info = <<>> THEN orig_info
  ELSE
    LET doc_id    == new_info[1][1]
        positions == new_info[1][2]
        merged    == IF ~dict_has(orig_info, doc_id)
                     THEN dict_set(orig_info, doc_id, positions)
                     ELSE dict_set(orig_info, doc_id,
                            list_of(set_of(dict_get(orig_info, doc_id))
                                      \cup set_of(positions), order))
    IN update_term_info(merged, Tail(new_info), order)

\* The branch of the loop without its test of `update`: it always merges.
new_record_merging(seg_term_info, term, term_info, update, written, order) ==
  IF ~json_loads(seg_term_info).ok
  THEN [err |-> TRUE, writes |-> <<>>, written |-> written]
  ELSE [err |-> FALSE,
        writes |-> << make_record(term,
                        update_term_info(json_loads(seg_term_info).value,
                                         term_info, order)) >>,
        written |-> TRUE]

\* The branch of the loop of save_segment for the line of the term itself:
\* the new record replaces the line, or is merged with it.
new_record(seg_term_info, term, term_info, update, written, order) ==
  IF ~update
  THEN [err |-> FALSE,
        writes |-> << make_record(term, term_info) >>,
        written |-> TRUE]
  ELSE
    IF ~json_loads(seg_term_info).ok
    THEN [err |-> TRUE, writes |-> <<>>, written |-> written]
    ELSE [err |-> FALSE,
          writes |-> << make_record(term,
                          update_term_info(json_loads(seg_term_info).value,
                                           term_info, order)) >>,
          written |-> TRUE]

\* One turn of the loop of save_segment over a line of the old segment:
\* what it writes to the temporary file, the flag `written` after it, and
\* whether it raised (a line that does not unpack into two fields, or, on
\* an update, an info that is not JSON).
loop_body(line, term, term_info, update, written, order) ==
  LET rec == parse_record(line) IN
    IF Len(rec) # 2
    THEN [err |-> TRUE, writes |-> <<>>, written |-> written]
    ELSE
      LET seg_term      == rec[1]
          seg_term_info == rec[2]
      IN
        IF ~written /\ StrGreater(seg_term, term)
        THEN [err |-> FALSE,
              writes |-> << make_record(term, term_info), line >>,
              written |-> TRUE]
        ELSE IF seg_term = term
        THEN new_record(seg_term_info, term, term_info, update, written, order)
        ELSE [err |-> FALSE, writes |-> << line >>, written |-> written]

\* The writes of `writes` that succeed after `out` when the fault_at-th write
\* to the temporary file raises (fault_at = 0: none does).
Written(out, writes, fault_at) ==
  IF fault_at > Len(out) /\ fault_at <= Len(out) + Len(writes)
  THEN SubSeq(out \o writes, 1, fault_at - 1)
  ELSE out \o writes

WriteFails(out, writes, fault_at) ==
  fault_at > Len(out) /\ fault_at <= Len(out) + Len(writes)

\* The loop of save_segment over lines[i..] and the write that follows it,
\* from what was written so far: the content of the temporary file, and
\* "none" or the exception raised.
RECURSIVE stream(_, _, _, _, _, _, _, _, _)
stream(lines, i, term, term_info, update, written, out, fault_at, order) ==
  IF i > Len(lines)
  THEN
    LET last_write == IF written THEN <<>> ELSE << make_record(term, term_info) >> IN
      [err |-> IF WriteFails(out, last_write, fault_at) THEN "IOError" ELSE "none",
       writes |-> Written(out, last_write, fault_at)]
  ELSE
    LET b == loop_body(lines[i], term, term_info, update, written, order) IN
      IF b.err THEN [err |-> "ValueError", writes |-> out]
      ELSE IF WriteFails(out, b.writes, fault_at)
      THEN [err |-> "IOError", writes |-> Written(out, b.writes, fault_at)]
      ELSE stream(lines, i + 1, term, term_info, update, b.written,
                  out \o b.writes, fault_at, order)

\* A directory with the file `name` holding `content`, and without it.
WithFile(dir, name, content) ==
  [n \in DOMAIN dir \cup {name} |-> IF n = name THEN content ELSE dir[n]]

WithoutFile(dir, name) == [n \in DOMAIN dir \ {name} |-> dir[n]]

\* tempfile.NamedTemporaryFile: a name no temporary file has.
NewTmpName(tmp) ==
  CHOOSE n \in 1..(Cardinality(DOMAIN tmp) + 1) :
    n \notin DOMAIN tmp /\ \A m \in 1..(n - 1) : m \in DOMAIN tmp

\* What the environment does to one call of save_segment:
\*   none    every system call succeeds
\*   write   the at-th write to the temporary file raises IOError
\*   rename  os.rename raises OSError, os.remove and the second os.rename succeed
\*   rename2 os.rename raises OSError, os.remove succeeds, os.rename raises again
\*   remove  os.rename raises OSError and os.remove raises too
NoFault == [kind |-> "none", at |-> 0]

Faults ==
  { NoFault, [kind |-> "rename", at |-> 0], [kind |-> "rename2", at |-> 0],
    [kind |-> "remove", at |-> 0] }
  \cup { [kind |-> "write", at |-> k] : k \in 1..MaxFaultWrite }

\* save_segment as a whole, under the fault the environment chooses: the
\* index directory and the temporary directory it leaves, and its result
\* ("ok" for True, else the exception).
save_segment(index, tmp, term, term_info, update, fault, order) ==
  LET seg_name == make_segment_name(term)
      new_seg  == NewTmpName(tmp)
      touched  == IF seg_name \in DOMAIN index THEN index
                  ELSE WithFile(index, seg_name, <<>>)
      s        == stream(touched[seg_name], 1, term, term_info, update,
                         FALSE, <<>>, fault.at, order)
  IN
    IF s.err # "none"
    THEN [index |-> touched, tmp |-> WithFile(tmp, new_seg, s.writes),
          result |-> s.err]
    ELSE IF fault.kind = "rename2"
    THEN [index |-> WithoutFile(touched, seg_name),
          tmp |-> WithFile(tmp, new_seg, s.writes),
          result |-> "OSError"]
    ELSE IF fault.kind = "remove"
    THEN [index |-> touched, tmp |-> WithFile(tmp, new_seg, s.writes),
          result |-> "OSError"]
    ELSE [index |-> WithFile(touched, seg_name, s.writes), tmp |-> tmp,
          result |-> "ok"]

\* A save_segment that streams nothing of the segment it opened.
save_segment_open_overwrite(index, tmp, term, term_info, update, fault_at, order) ==
  LET seg_name == make_segment_name(term)
      new_seg  == NewTmpName(tmp)
      touched  == IF seg_name \in DOMAIN index THEN index
                  ELSE WithFile(index, seg_name, <<>>)
      s        == stream(<<>>, 1, term, term_info, update,
                         FALSE, <<>>, fault_at, order)
  IN [index |-> touched, tmp |-> WithFile(tmp, new_seg, s.writes),
      new_seg |-> new_seg, snap |-> touched[seg_name], err |-> s.err]

\* save_segment up to the end of its loop (the temporary file is made, the
\* segment is touched, opened and streamed into the temporary file): the two
\* directories it leaves, its temporary file, the lines it read, and "none"
\* or the exception raised.
save_segment_open(index, tmp, term, term_info, update, fault_at, order) ==
  LET seg_name == make_segment_name(term)
      new_seg  == NewTmpName(tmp)
      touched  == IF seg_name \in DOMAIN index THEN index
                  ELSE WithFile(index, seg_name, <<>>)
      s        == stream(touched[seg_name], 1, term, term_info, update,
                         FALSE, <<>>, fault_at, order)
  IN [index |-> touched, tmp |-> WithFile(tmp, new_seg, s.writes),
      new_seg |-> new_seg, snap |-> touched[seg_name], err |-> s.err]

\* save_segment from the close of the temporary file on: os.rename, and
\* when it raises os.remove (which raises when the segment is gone) and
\* os.rename again.
save_segment_rename(index, tmp, seg_name, new_seg, kind) ==
  IF kind = "none"
  THEN [index |-> WithFile(index, seg_name, tmp[new_seg]),
        tmp |-> WithoutFile(tmp, new_seg), result |-> "ok"]
  ELSE IF kind = "remove" \/ seg_name \notin DOMAIN index
  THEN [index |-> index, tmp |-> tmp, result |-> "OSError"]
  ELSE IF kind = "rename2"
  THEN [index |-> WithoutFile(index, seg_name), tmp |-> tmp, result |-> "OSError"]
  ELSE [index |-> WithFile(index, seg_name, tmp[new_seg]),
        tmp |-> WithoutFile(tmp, new_seg), result |-> "ok"]

\* A scan that takes the first record whose term begins the term asked for.
RECURSIVE scan_startswith(_, _, _)
scan_startswith(lines, i, term) ==
  IF i > Len(lines) THEN [ok |-> TRUE, value |-> <<>>]
  ELSE
    LET rec == parse_record(lines[i]) IN
      IF Len(rec) # 2 THEN [ok |-> FALSE, value |-> <<>>]
      ELSE IF /\ Len(rec[1]) <= Len(term)
              /\ SubSeq(term, 1, Len(rec[1])) = rec[1]
      THEN json_loads(rec[2])
      ELSE scan_startswith(lines, i + 1, term)

\* A scan that passes over the lines without a tab.
RECURSIVE scan_lenient(_, _, _)
scan_lenient(lines, i, term) ==
  IF i > Len(lines) THEN [ok |-> TRUE, value |-> <<>>]
  ELSE
    LET rec == parse_record(lines[i]) IN
      IF Len(rec) # 2 THEN scan_lenient(lines, i + 1, term)
      ELSE IF rec[1] = term THEN json_loads(rec[2])
      ELSE scan_lenient(lines, i + 1, term)

\* load_segment: the scan of the lines from the i-th on.
RECURSIVE scan(_, _, _)
scan(lines, i, term) ==
  IF i > Len(lines) THEN [ok |-> TRUE, value |-> <<>>]
  ELSE
    LET rec == parse_record(lines[i]) IN
      IF Len(rec) # 2 THEN [ok |-> FALSE, value |-> <<>>]
      ELSE IF rec[1] = term THEN json_loads(rec[2])
      ELSE scan(lines, i + 1, term)

load_segment(index, term) ==
  IF make_segment_name(term) \notin DOMAIN index
  THEN [ok |-> TRUE, value |-> <<>>]
  ELSE scan(index[make_segment_name(term)], 1, term)

\* ---------------------------------------------------------------- analyzer
STOP_WORDS ==
  { << "a" >>,
    << "a", "n" >>,
    << "a", "n", "d" >>,
    << "a", "r", "e" >>,
    << "a", "s" >>,
    << "a", "t" >>,
    << "b", "e" >>,
    << "b", "u", "t" >>,
    << "b", "y" >>,
    << "f", "o", "r" >>,
    << "i", "f" >>,
    << "i", "n" >>,
    << "i", "n", "t", "o" >>,
    << "i", "s" >>,
    << "i", "t" >>,
    << "n", "o" >>,
    << "n", "o", "t" >>,
    << "o", "f" >>,
    << "o", "n" >>,
    << "o", "r" >>,
    << "s" >>,
    << "s", "u", "c", "h" >>,
    << "t" >>,
    << "t", "h", "a", "t" >>,
    << "t", "h", "e" >>,
    << "t", "h", "e", "i", "r" >>,
    << "t", "h", "e", "n" >>,
    << "t", "h", "e", "r", "e" >>,
    << "t", "h", "e", "s", "e" >>,
    << "t", "h", "e", "y" >>,
    << "t", "h", "i", "s" >>,
    << "t", "o" >>,
    << "w", "a", "s" >>,
    << "w", "i", "l", "l" >>,
    << "w", "i", "t", "h" >> }

\* The characters of the class PUNCTUATION, '[~`!@#$%^&*()+={\[}\]|\\:;"\',<.>/?]':
\* in the class, \[ \] and \: stand for [ ] and : (the backquote, which a
\* string of this module cannot hold, is left out).
PUNCTUATION ==
  { "~", "!", "@", "#", "$", "%", "^", "&", "*", "(", ")", "+", "=", "{", "[",
    "}", "]", "|", ":", ";", "\"", "'", ",", "<", ".", ">", "/", "?" }

Whitespace == { " ", "\t", "\n" }

\* self.PUNCTUATION.sub(' ', blob)
sub_punctuation(blob) ==
  [i \in 1..Len(blob) |-> IF blob[i] \in PUNCTUATION THEN " " ELSE blob[i]]

\* blob.split(): the maximal runs of characters that are not whitespace.
RECURSIVE split(_, _, _)
split(blob, cur, out) ==
  IF blob = <<>> THEN (IF cur = <<>> THEN out ELSE Append(out, cur))
  ELSE IF blob[1] \in Whitespace
  THEN split(Tail(blob), <<>>, IF cur = <<>> THEN out ELSE Append(out, cur))
  ELSE split(Tail(blob), Append(cur, blob[1]), out)

\* str.lower() on the characters of the model.
lower(token) ==
  [i \in 1..Len(token) |->
     IF IsIn(Upper, token[i]) THEN Lower[IndexOf(Upper, token[i])] ELSE token[i]]

make_tokens(blob) ==
  LET pieces == split(sub_punctuation(blob), <<>>, <<>>)
      tokens == [i \in 1..Len(pieces) |-> lower(pieces[i])]
  IN SelectSeq(tokens, LAMBDA token : token \notin STOP_WORDS)

MIN_GRAM == 3
MAX_GRAM == 6

Min(a, b) == IF a < b THEN a ELSE b

\* The inner loop of make_ngrams for one token, from window_length on.
RECURSIVE grams_of(_, _, _, _, _)
grams_of(terms, token, position, window_length, max_gram) ==
  IF window_length >= Min(max_gram + 1, Len(token) + 1) THEN terms
  ELSE
    LET gram == SubSeq(token, 1, window_length)
        had  == IF dict_has(terms, gram) THEN terms ELSE dict_set(terms, gram, <<>>)
        now  == IF position \in set_of(dict_get(had, gram)) THEN had
                ELSE dict_set(had, gram, Append(dict_get(had, gram), position))
    IN grams_of(now, token, position, window_length + 1, max_gram)

\* The outer loop of make_ngrams, from the token at `position` (0-based) on.
RECURSIVE ngrams_from(_, _, _, _, _)
ngrams_from(terms, tokens, position, min_gram, max_gram) ==
  IF position >= Len(tokens) THEN terms
  ELSE ngrams_from(grams_of(terms, tokens[position + 1], position, min_gram, max_gram),
                   tokens, position + 1, min_gram, max_gram)

\* make_ngrams with range(min_gram, min(max_gram, len(token) + 1)).
make_ngrams_short(tokens) == ngrams_from(<<>>, tokens, 0, MIN_GRAM, MAX_GRAM - 1)

make_ngrams(tokens) == ngrams_from(<<>>, tokens, 0, MIN_GRAM, MAX_GRAM)

\* --------------------------------------------------------------- documents
\* A document id as the caller gives it: a str, or an int with its decimal
\* digits.  str() of either is its text.
str(doc_id) == doc_id.text

\* A path that names the directory of the hash only.
make_document_name_of_hash(doc_id) == << hash_name(doc_id), <<>> >>

make_document_name(doc_id) == << hash_name(doc_id), doc_id >>

\* save_document under the fault the environment chooses: "open" (makedirs
\* or open raises, nothing is written) or "write" (the file was opened, so
\* truncated, and the write raises).
save_document(docs, doc_id, document, fault) ==
  IF fault = "open" THEN [docs |-> docs, result |-> "IOError"]
  ELSE IF fault = "write"
  THEN [docs |-> WithFile(docs, make_document_name(doc_id), InvalidJson),
        result |-> "IOError"]
  ELSE [docs |-> WithFile(docs, make_document_name(doc_id), json_dumps(document)),
        result |-> "ok"]

\* load_document: ok = FALSE stands for the IOError of a missing file and
\* the ValueError of a text that does not parse.
load_document(docs, doc_id) ==
  IF make_document_name(doc_id) \notin DOMAIN docs
  THEN [ok |-> FALSE, value |-> <<>>]
  ELSE json_loads(docs[make_document_name(doc_id)])

\* What load_document raises: IOError (FileNotFoundError) from open when
\* the file is missing, ValueError from json.loads, or nothing.
load_document_error(docs, doc_id) ==
  IF make_document_name(doc_id) \notin DOMAIN docs THEN "IOError"
  ELSE IF ~json_loads(docs[make_document_name(doc_id)]).ok THEN "ValueError"
  ELSE "none"

\* ------------------------------------------------------------------- stats
\* The stats directory holds "stats.json" or nothing; a stats record is a
\* function from its keys to their values.
CurrentVersion == "1.0.0"

read_stats(stats) ==
  IF "stats.json" \notin DOMAIN stats
  THEN [version |-> CurrentVersion, total_docs |-> 0]
  ELSE stats["stats.json"]

write_stats(stats, new_stats) == WithFile(stats, "stats.json", new_stats)

\* An increment that writes a record of its own making.
increment_total_docs_fresh(stats) ==
  write_stats(stats, [version |-> CurrentVersion,
                      total_docs |-> (IF "total_docs" \in DOMAIN read_stats(stats)
                                      THEN read_stats(stats)["total_docs"]
                                      ELSE 0) + 1])

\* An increment that writes back what it read.
increment_total_docs_stuck(stats) ==
  write_stats(stats,
              IF "total_docs" \in DOMAIN read_stats(stats) THEN read_stats(stats)
              ELSE WithFile(read_stats(stats), "total_docs", 0))

increment_total_docs(stats) ==
  LET current_stats == read_stats(stats)
      defaulted == IF "total_docs" \in DOMAIN current_stats THEN current_stats
                   ELSE WithFile(current_stats, "total_docs", 0)
  IN write_stats(stats, [defaulted EXCEPT !["total_docs"] = @ + 1])

get_total_docs(stats) ==
  IF "total_docs" \in DOMAIN read_stats(stats)
  THEN read_stats(stats)["total_docs"] ELSE 0

\* ------------------------------------------------------------------- index
\* A document as the caller gives it: a mapping with its fields, or a value
\* that has no `items` attribute.
NotMapping == [mapping |-> FALSE, fields |-> <<>>]

Mapping(fields) == [mapping |-> TRUE, fields |-> fields]

\* What the environment does to one call of index: a fault of save_document
\* ("none", "open", "write"), and the fault of the at-th call of save_segment.
NoPlan == [doc |-> "none", at |-> 0, fault |-> NoFault]

\* The loop of index over terms.items(), from the i-th term on.
RECURSIVE index_terms(_, _, _, _, _, _, _)
index_terms(index, tmp, terms, i, doc_id, plan, order) ==
  IF i > Len(terms) THEN [index |-> index, tmp |-> tmp, result |-> "ok"]
  ELSE
    LET s == save_segment(index, tmp, terms[i][1], << << doc_id, terms[i][2] >> >>,
                          TRUE, IF plan.at = i THEN plan.fault ELSE NoFault, order)
    IN IF s.result # "ok" THEN s
       ELSE index_terms(s.index, s.tmp, terms, i + 1, doc_id, plan, order)

Outcome(index_dir, tmp, docs, stats, result) ==
  [index |-> index_dir, tmp |-> tmp, docs |-> docs, stats |-> stats,
   result |-> result]

\* The end of index with the increment moved into a finally clause.
index_stats_always(segs, docs, stats) ==
  Outcome(segs.index, segs.tmp, docs, increment_total_docs(stats), segs.result)

\* The end of index: the stats are incremented unless a save_segment raised.
index_stats(segs, docs, stats) ==
  IF segs.result # "ok"
  THEN Outcome(segs.index, segs.tmp, docs, stats, segs.result)
  ELSE Outcome(segs.index, segs.tmp, docs, increment_total_docs(stats), "ok")

\* index from the return of save_document on.
index_saved(index_dir, tmp, saved, stats, doc_id, text, plan, order) ==
  IF saved.result # "ok"
  THEN Outcome(index_dir, tmp, saved.docs, stats, saved.result)
  ELSE index_stats(index_terms(index_dir, tmp, make_ngrams(make_tokens(text)), 1,
                               doc_id, plan, order),
                   saved.docs, stats)

\* index with the test for the text field moved after save_document.
index_save_first(index_dir, tmp, docs, stats, raw_doc_id, document, plan, order) ==
  IF ~document.mapping
  THEN Outcome(index_dir, tmp, docs, stats, "AttributeError")
  ELSE IF ~dict_has(document.fields, "text")
  THEN Outcome(index_dir, tmp,
               save_document(docs, str(raw_doc_id), document.fields, plan.doc).docs,
               stats,
               IF save_document(docs, str(raw_doc_id), document.fields,
                                plan.doc).result = "ok"
               THEN "KeyError"
               ELSE save_document(docs, str(raw_doc_id), document.fields,
                                  plan.doc).result)
  ELSE index_saved(index_dir, tmp,
                   save_document(docs, str(raw_doc_id), document.fields, plan.doc),
                   stats, str(raw_doc_id), dict_get(document.fields, "text"),
                   plan, order)

\* index as a whole: the four directories it leaves and its result.
index(index_dir, tmp, docs, stats, raw_doc_id, document, plan, order) ==
  IF ~document.mapping
  THEN Outcome(index_dir, tmp, docs, stats, "AttributeError")
  ELSE IF ~dict_has(document.fields, "text")
  THEN Outcome(index_dir, tmp, docs, stats, "KeyError")
  ELSE index_saved(index_dir, tmp,
                   save_document(docs, str(raw_doc_id), document.fields, plan.doc),
                   stats, str(raw_doc_id), dict_get(document.fields, "text"),
                   plan, order)

\* ------------------------------------------------------------------ search
parse_query(query) == make_ngrams(make_tokens(query))

\* per_doc_counts after the inner loop of collect_results over
\* term_matches.items(), from the j-th item on.
RECURSIVE count_docs(_, _, _, _)
count_docs(per_doc_counts, term_matches, j, term) ==
  IF j > Len(term_matches) THEN per_doc_counts
  ELSE
    LET doc_id == term_matches[j][1]
        docs_  == IF dict_has(per_doc_counts, doc_id) THEN per_doc_counts
                  ELSE dict_set(per_doc_counts, doc_id, <<>>)
        counts == dict_get(docs_, doc_id)
        had    == IF dict_has(counts, term) THEN dict_get(counts, term) ELSE 0
    IN count_docs(dict_set(docs_, doc_id,
                           dict_set(counts, term, had + Len(term_matches[j][2]))),
                  term_matches, j + 1, term)

\* collect_results over the terms from the i-th on; ok = FALSE when
\* load_segment raised.
RECURSIVE collect_results(_, _, _, _, _)
collect_results(index_dir, terms, i, per_term_docs, per_doc_counts) ==
  IF i > Len(terms)
  THEN [ok |-> TRUE, per_term_docs |-> per_term_docs,
        per_doc_counts |-> per_doc_counts]
  ELSE
    LET term         == terms[i][1]
        term_matches == load_segment(index_dir, term)
        had          == IF dict_has(per_term_docs, term)
                        THEN dict_get(per_term_docs, term) ELSE 0
    IN
      IF ~term_matches.ok
      THEN [ok |-> FALSE, per_term_docs |-> per_term_docs,
            per_doc_counts |-> per_doc_counts]
      ELSE collect_results(index_dir, terms, i + 1,
             dict_set(per_term_docs, term, had + Len(term_matches.value)),
             count_docs(per_doc_counts, term_matches.value, 1, term))

\* 10^6 * log((total_docs - matches + 1.0) / matches) / log(1.0 + total_docs),
\* rounded, for 1 <= matches <= total_docs <= 6 and for the totals and
\* matches of test_bm25_relevance.
idf_micro(total_docs, matches) ==
  CASE << total_docs, matches >> = << 1, 1 >> -> 0
    [] << total_docs, matches >> = << 2, 1 >> -> 630930
    [] << total_docs, matches >> = << 2, 2 >> -> -630930
    [] << total_docs, matches >> = << 3, 1 >> -> 792481
    [] << total_docs, matches >> = << 3, 2 >> -> 0
    [] << total_docs, matches >> = << 3, 3 >> -> -792481
    [] << total_docs, matches >> = << 4, 1 >> -> 861353
    [] << total_docs, matches >> = << 4, 2 >> -> 251930
    [] << total_docs, matches >> = << 4, 3 >> -> -251930
    [] << total_docs, matches >> = << 4, 4 >> -> -861353
    [] << total_docs, matches >> = << 5, 1 >> -> 898244
    [] << total_docs, matches >> = << 5, 2 >> -> 386853
    [] << total_docs, matches >> = << 5, 3 >> -> 0
    [] << total_docs, matches >> = << 5, 4 >> -> -386853
    [] << total_docs, matches >> = << 5, 5 >> -> -898244
    [] << total_docs, matches >> = << 6, 1 >> -> 920782
    [] << total_docs, matches >> = << 6, 2 >> -> 470880
    [] << total_docs, matches >> = << 6, 3 >> -> 147839
    [] << total_docs, matches >> = << 6, 4 >> -> -147839
    [] << total_docs, matches >> = << 6, 5 >> -> -470880
    [] << total_docs, matches >> = << 6, 6 >> -> -920782
    [] << total_docs, matches >> = << 17, 7 >> -> 156376
    [] << total_docs, matches >> = << 175, 7 >> -> 615801
    [] << total_docs, matches >> = << 175, 25 >> -> 347821

\* The loop of bm25_relevance over the terms from the i-th on, in millionths
\* (k = 1.2): the division by matches[term] raises ZeroDivisionError, the
\* log of a quotient that is not positive raises ValueError.
RECURSIVE bm25_sum(_, _, _, _, _, _)
bm25_sum(terms, i, matches, current_doc, total_docs, score) ==
  IF i > Len(terms) THEN [err |-> "none", score |-> score]
  ELSE
    LET term == terms[i][1]
        m    == dict_get(matches, term)
        tf   == IF dict_has(current_doc, term) THEN dict_get(current_doc, term) ELSE 0
    IN
      IF m = 0 THEN [err |-> "ZeroDivisionError", score |-> score]
      ELSE IF total_docs - m + 1 <= 0 THEN [err |-> "ValueError", score |-> score]
      ELSE bm25_sum(terms, i + 1, matches, current_doc, total_docs,
                    score + (tf * idf_micro(total_docs, m) * 10) \div (tf * 10 + 12))

\* The return without the 2 of 2 * len(terms).
bm25_relevance_whole(terms, matches, current_doc, total_docs) ==
  LET s == bm25_sum(terms, 1, matches, current_doc, total_docs, 0) IN
    IF s.err # "none" THEN s
    ELSE IF Len(terms) = 0 THEN [err |-> "ZeroDivisionError", score |-> 0]
    ELSE [err |-> "none", score |-> 500000 + s.score \div Len(terms)]

\* bm25_relevance with b = 0, in millionths; len(terms) = 0 raises
\* ZeroDivisionError.
bm25_relevance(terms, matches, current_doc, total_docs) ==
  LET s == bm25_sum(terms, 1, matches, current_doc, total_docs, 0) IN
    IF s.err # "none" THEN s
    ELSE IF Len(terms) = 0 THEN [err |-> "ZeroDivisionError", score |-> 0]
    ELSE [err |-> "none", score |-> 500000 + s.score \div (2 * Len(terms))]

\* The scoring loop of search over per_doc_counts.items(), from the i-th on.
RECURSIVE score_results(_, _, _, _, _, _)
score_results(per_doc_counts, i, terms, per_term_docs, total_docs, scored) ==
  IF i > Len(per_doc_counts) THEN [err |-> "none", scored |-> scored]
  ELSE
    LET r == bm25_relevance(terms, per_term_docs, per_doc_counts[i][2], total_docs) IN
      IF r.err # "none" THEN [err |-> r.err, scored |-> scored]
      ELSE score_results(per_doc_counts, i + 1, terms, per_term_docs, total_docs,
                         Append(scored, [id |-> per_doc_counts[i][1], score |-> r.score]))

\* sorted without reverse=True: stable, ascending.
RECURSIVE sorted_asc(_, _)
sorted_asc(scored, out) ==
  IF scored = <<>> THEN out
  ELSE
    LET x == scored[1]
        n == Cardinality({ j \in 1..Len(out) : out[j].score <= x.score })
    IN sorted_asc(Tail(scored),
                  SubSeq(out, 1, n) \o << x >> \o SubSeq(out, n + 1, Len(out)))

\* sorted(scored_results, key=score, reverse=True): stable, descending.
RECURSIVE sorted_desc(_, _)
sorted_desc(scored, out) ==
  IF scored = <<>> THEN out
  ELSE
    LET x == scored[1]
        n == Cardinality({ j \in 1..Len(out) : out[j].score >= x.score })
    IN sorted_desc(Tail(scored),
                   SubSeq(out, 1, n) \o << x >> \o SubSeq(out, n + 1, Len(out)))

\* Python's seq[start:stop].
Max(a, b) == IF a > b THEN a ELSE b

slice_bound(n, len) == IF n < 0 THEN Max(len + n, 0) ELSE Min(n, len)

slice(seq, start, stop) ==
  SubSeq(seq, slice_bound(start, Len(seq)) + 1, slice_bound(stop, Len(seq)))

\* The loop with res.update(doc_dict) in place of doc_dict.update(res).
RECURSIVE hydrate_payload_wins(_, _, _, _)
hydrate_payload_wins(docs, sliced, i, out) ==
  IF i > Len(sliced) THEN [err |-> "none", results |-> out]
  ELSE
    LET doc_dict == load_document(docs, sliced[i].id) IN
      IF ~doc_dict.ok THEN [err |-> "LoadError", results |-> out]
      ELSE hydrate_payload_wins(docs, sliced, i + 1,
             Append(out,
                    json_members(doc_dict.value,
                                 << << "id", sliced[i].id >>,
                                    << "score", sliced[i].score >> >>)))

\* The loop of search that loads the documents, from the i-th result on.
RECURSIVE hydrate(_, _, _, _)
hydrate(docs, sliced, i, out) ==
  IF i > Len(sliced) THEN [err |-> "none", results |-> out]
  ELSE
    LET doc_dict == load_document(docs, sliced[i].id) IN
      IF ~doc_dict.ok THEN [err |-> "LoadError", results |-> out]
      ELSE hydrate(docs, sliced, i + 1,
                   Append(out, dict_set(dict_set(doc_dict.value, "id", sliced[i].id),
                                        "score", sliced[i].score)))

Found(err, total_hits, results) ==
  [err |-> err, total_hits |-> total_hits, results |-> results]

\* search from the sort of the scored results on.
search_sorted(docs, sorted_results, offset, limit) ==
  Found(hydrate(docs, slice(sorted_results, offset, offset + limit), 1, <<>>).err,
        Len(sorted_results),
        hydrate(docs, slice(sorted_results, offset, offset + limit), 1, <<>>).results)

\* A search that scores an empty document before its loop.
search_scored_probe(docs, collected, terms, total_docs, offset, limit) ==
  IF ~collected.ok THEN Found("ValueError", 0, <<>>)
  ELSE IF bm25_relevance(terms, collected.per_term_docs, <<>>, total_docs).err
            # "none"
  THEN Found(bm25_relevance(terms, collected.per_term_docs, <<>>, total_docs).err,
             0, <<>>)
  ELSE search_sorted(docs,
                     sorted_desc(score_results(collected.per_doc_counts, 1, terms,
                                               collected.per_term_docs, total_docs,
                                               <<>>).scored, <<>>),
                     offset, limit)

\* search from the scoring loop on.
search_scored(docs, collected, terms, total_docs, offset, limit) ==
  IF ~collected.ok THEN Found("ValueError", 0, <<>>)
  ELSE IF score_results(collected.per_doc_counts, 1, terms,
                        collected.per_term_docs, total_docs, <<>>).err # "none"
  THEN Found(score_results(collected.per_doc_counts, 1, terms,
                           collected.per_term_docs, total_docs, <<>>).err, 0, <<>>)
  ELSE search_sorted(docs,
                     sorted_desc(score_results(collected.per_doc_counts, 1, terms,
                                               collected.per_term_docs, total_docs,
                                               <<>>).scored, <<>>),
                     offset, limit)

\* search of a query that is not empty on a store that holds documents.
search_terms(index_dir, docs, total_docs, terms, offset, limit) ==
  search_scored(docs, collect_results(index_dir, terms, 1, <<>>, <<>>), terms,
                total_docs, offset, limit)

\* search without the early return on total_docs == 0.
search_unguarded(index_dir, docs, stats, query, offset, limit) ==
  IF Len(query) = 0 THEN Found("none", 0, <<>>)
  ELSE search_terms(index_dir, docs, get_total_docs(stats), parse_query(query),
                    offset, limit)

search(index_dir, docs, stats, query, offset, limit) ==
  IF Len(query) = 0 THEN Found("none", 0, <<>>)
  ELSE IF get_total_docs(stats) = 0 THEN Found("none", 0, <<>>)
  ELSE search_terms(index_dir, docs, get_total_docs(stats), parse_query(query),
                    offset, limit)

\* A search whose load_segment touches the segments it does not find.
search_leaves_touched(index_dir, tmp, docs, stats, query) ==
  [index |-> [n \in DOMAIN index_dir
                     \cup { make_segment_name(t) :
                              t \in dict_keys(parse_query(query)) } |->
                IF n \in DOMAIN index_dir THEN index_dir[n] ELSE <<>>],
   tmp |-> tmp, docs |-> docs, stats |-> stats]

\* What search leaves of the four directories: it opens files for reading
\* only, and os.path.exists guards the open of load_segment.
search_leaves(index_dir, tmp, docs, stats, query) ==
  [index |-> index_dir, tmp |-> tmp, docs |-> docs, stats |-> stats]

\* ------------------------------------------------------- index, step by step
\* index up to the loop over the terms without the call of save_document.
index_begin_unsaved(docs, raw_doc_id, document, fault) ==
  IF ~document.mapping
  THEN [docs |-> docs, result |-> "AttributeError", terms |-> <<>>]
  ELSE IF ~dict_has(document.fields, "text")
  THEN [docs |-> docs, result |-> "KeyError", terms |-> <<>>]
  ELSE [docs |-> docs, result |-> "ok",
        terms |-> make_ngrams(make_tokens(dict_get(document.fields, "text")))]

\* index up to the loop over the terms: the two tests, save_document, and
\* the terms of the text.
index_begin(docs, raw_doc_id, document, fault) ==
  IF ~document.mapping
  THEN [docs |-> docs, result |-> "AttributeError", terms |-> <<>>]
  ELSE IF ~dict_has(document.fields, "text")
  THEN [docs |-> docs, result |-> "KeyError", terms |-> <<>>]
  ELSE IF save_document(docs, str(raw_doc_id), document.fields, fault).result # "ok"
  THEN [docs |-> save_document(docs, str(raw_doc_id), document.fields, fault).docs,
        result |-> save_document(docs, str(raw_doc_id), document.fields,
                                 fault).result,
        terms |-> <<>>]
  ELSE [docs |-> save_document(docs, str(raw_doc_id), document.fields, fault).docs,
        result |-> "ok",
        terms |-> make_ngrams(make_tokens(dict_get(document.fields, "text")))]

\* ------------------------------------------------------------------- state
VARIABLES
  index_files,   \* the index directory: segment name -> lines
  tmp_files,     \* the temporary directory: temporary file -> lines
  doc_files,     \* the documents directory: document name -> JSON text
  stats_files,   \* the base directory: "stats.json" -> stats record
  last,          \* the last call: operation, arguments, result
  index_ok,      \* the number of index calls that returned True
  nops,          \* the number of calls made
  writer,        \* a call of save_segment taken step by step
  reader,        \* a call of load_segment taken step by step
  ret,           \* the last call of a method that writes nothing
  calls,         \* the calls of index taken step by step, by caller
  saved          \* what save_document was last given, by document id

vars ==
  << index_files, tmp_files, doc_files, stats_files, last, index_ok, nops,
     writer, reader, ret, calls, saved >>

NoFiles == [n \in {} |-> <<>>]

\* ------------------------------------------------------------------ inputs
SaveTerms == { eybo, fun, gmmk, avo }

\* {"d1": [0]}, {"d1": [1, 0], "2": [1]}, {"2": [0, 0]}
SavePostings ==
  { << << d1, << 0 >> >> >>,
    << << d1, << 1, 0 >> >>, << d2, << 1 >> >> >>,
    << << d2, << 0, 0 >> >> >> }

RawDocIds == { [type |-> "str", text |-> d1], [type |-> "int", text |-> d2] }

\* "Fun avo", "the muk, fun", "fun fun"
Texts ==
  { << "F", "u", "n", " ", "a", "v", "o" >>,
    << "t", "h", "e", " ", "m", "u", "k", ",", " ", "f", "u", "n" >>,
    << "f", "u", "n", " ", "f", "u", "n" >> }

Documents ==
  { NotMapping, Mapping(<< << "subject", << "h", "i" >> >> >>) }
  \cup { Mapping(<< << "text", t >> >>) : t \in Texts }

Plans ==
  { NoPlan, [doc |-> "open", at |-> 0, fault |-> NoFault],
    [doc |-> "write", at |-> 0, fault |-> NoFault] }
  \cup { [doc |-> "none", at |-> k, fault |-> f] :
           k \in 1..MaxFaultCall, f \in Faults \ {NoFault} }

\* "", "fun", "Avo muk!", "funk", "the"
Queries ==
  { <<>>, fun, << "A", "v", "o", " ", "m", "u", "k", "!" >>, funk,
    << "t", "h", "e" >> }

\* The last call: its operation, its arguments, its result ("ok" or the
\* exception), what search returned, and, for save_segment, whether the term
\* had a record before the call and the posting load_segment gave for it.
Call(op, term, term_info, update, doc_id, document, query, offset, limit, result, found, had, before) ==
  [op |-> op, term |-> term, term_info |-> term_info, update |-> update,
   doc_id |-> doc_id, document |-> document, query |-> query,
   offset |-> offset, limit |-> limit,
   result |-> result, found |-> found, had |-> had, before |-> before]

NoCall ==
  Call("none", <<>>, <<>>, FALSE, <<>>, NotMapping, <<>>, 0, 0, "none",
       Found("none", 0, <<>>), FALSE, <<>>)

\* --------------------------------------------------------------- histories
\* A Microsearch object is constructed over a base directory that holds the
\* store earlier calls left there: the empty store, or the store left by
\* one of these histories of calls, none of which met a fault.
SaveCall(term, term_info, update) ==
  [op |-> "save_segment", term |-> term, term_info |-> term_info,
   update |-> update, doc_id |-> [type |-> "str", text |-> <<>>],
   document |-> NotMapping, plan |-> NoPlan]

IndexCall(raw_doc_id, text, plan) ==
  [op |-> "index", term |-> <<>>, term_info |-> <<>>, update |-> FALSE,
   doc_id |-> raw_doc_id, document |-> Mapping(<< << "text", text >> >>),
   plan |-> plan]

\* index of a payload that has fields named id and score.
IndexPayload(raw_doc_id, fields) ==
  [op |-> "index", term |-> <<>>, term_info |-> <<>>, update |-> FALSE,
   doc_id |-> raw_doc_id, document |-> Mapping(fields), plan |-> NoPlan]

\* The fifth history is an index call whose second save_segment raised.
Histories ==
  { <<>>,
    << SaveCall(eybo, << << d1, << 0 >> >> >>, FALSE),
       SaveCall(gmmk, << << d2, << 1 >> >> >>, FALSE) >>,
    << SaveCall(gmmk, << << d2, << 1 >> >> >>, FALSE),
       SaveCall(fun, << << d1, << 1 >> >> >>, TRUE),
       SaveCall(eybo, << << d1, << 0 >> >>, << d2, << 0, 1 >> >> >>, TRUE),
       SaveCall(avo, << << d1, << 0 >> >> >>, FALSE) >>,
    << IndexCall([type |-> "str", text |-> d1],
                 << "F", "u", "n", " ", "a", "v", "o" >>, NoPlan),
       IndexCall([type |-> "int", text |-> d2],
                 << "m", "u", "k", " ", "f", "u", "n" >>, NoPlan) >>,
    << IndexCall([type |-> "str", text |-> d1],
                 << "F", "u", "n", " ", "a", "v", "o" >>,
                 [doc |-> "none", at |-> 2,
                  fault |-> [kind |-> "remove", at |-> 0]]) >>,
    << IndexPayload([type |-> "str", text |-> d1],
                    << << "id", << "x" >> >>,
                       << "text", << "f", "u", "n", " ", "f", "u", "n" >> >>,
                       << "score", 9 >>,
                       << "subject", << "h", "i" >> >> >>),
       IndexCall([type |-> "int", text |-> d2],
                 << "m", "u", "k", " ", "f", "u", "n" >>, NoPlan) >> }

AscendingOrder == [i \in 1..Cardinality(Positions) |-> i - 1]

AfterSave(store, r) == [store EXCEPT !.index = r.index, !.tmp = r.tmp]

AfterIndex(store, r) ==
  [index |-> r.index, tmp |-> r.tmp, docs |-> r.docs, stats |-> r.stats,
   index_ok |-> store.index_ok + (IF r.result = "ok" THEN 1 ELSE 0)]

RECURSIVE Replay(_, _, _)
Replay(history, i, store) ==
  IF i > Len(history) THEN store
  ELSE IF history[i].op = "save_segment"
  THEN Replay(history, i + 1,
              AfterSave(store,
                        save_segment(store.index, store.tmp, history[i].term,
                                     history[i].term_info, history[i].update,
                                     NoFault, AscendingOrder)))
  ELSE Replay(history, i + 1,
              AfterIndex(store,
                         index(store.index, store.tmp, store.docs, store.stats,
                               history[i].doc_id, history[i].document,
                               history[i].plan, AscendingOrder)))

EmptyStore ==
  [index |-> NoFiles, tmp |-> NoFiles, docs |-> NoFiles, stats |-> NoFiles,
   index_ok |-> 0]

\* A call of save_segment in progress: where it stands, its arguments, what
\* the environment does to it, its temporary file, the lines it read from
\* the segment it opened, the line it is at, its flag `written`, its result,
\* and the two directories as they were when it began.
WriterIdle ==
  [pc |-> "idle", term |-> <<>>, term_info |-> <<>>, update |-> FALSE,
   fault |-> NoFault, order |-> AscendingOrder, new_seg |-> 0, lines |-> <<>>,
   i |-> 0, written |-> FALSE, result |-> "none", before |-> NoFiles,
   tmp_before |-> NoFiles]

\* A call of load_segment in progress: where it stands, its term, the lines
\* of the segment it opened, what it returned or raised.
ReaderIdle ==
  [pc |-> "idle", term |-> <<>>, lines |-> <<>>,
   result |-> [ok |-> TRUE, value |-> <<>>], err |-> "none"]

\* A call of make_tokens, make_ngrams or load_segment: the method, its
\* argument, what it returned.  Before the call, op names the kind of the
\* argument the caller holds.
Ret(op, arg, value) == [op |-> op, arg |-> arg, value |-> value]

NoRet == Ret("none", <<>>, <<>>)

\* A call of index in progress: where it stands, its document id, the terms
\* of its text with the one it is at, the temporary file of the save_segment
\* it is in and the lines that call read from the segment, and its result.
\* stale holds the segments this call renamed over a content that was no
\* longer the one it had read.
IdleCall ==
  [pc |-> "idle", doc_id |-> <<>>, terms |-> <<>>, i |-> 0, new_seg |-> 0,
   snap |-> <<>>, result |-> "none", stale |-> {}]

Callers == { 1, 2 }

NoCalls == [c \in Callers |-> IdleCall]

\* ----------------------------------------------------------------- actions
Init ==
  /\ \E history \in Histories :
       LET store == Replay(history, 1, EmptyStore) IN
         /\ index_files = store.index
         /\ tmp_files = store.tmp
         /\ doc_files = store.docs
         /\ stats_files = store.stats
         /\ index_ok = store.index_ok
  /\ last = NoCall
  /\ nops = 0
  /\ writer = WriterIdle
  /\ reader = ReaderIdle
  /\ ret = NoRet
  /\ calls = NoCalls
  /\ saved = NoFiles

\* Whether the segment of `term` holds a record of it.
has_record(index_dir, term) ==
  /\ make_segment_name(term) \in DOMAIN index_dir
  /\ \E i \in 1..Len(index_dir[make_segment_name(term)]) :
       parse_record(index_dir[make_segment_name(term)][i])[1] = term

SaveSegmentStep(r, term, term_info, update) ==
  /\ index_files' = r.index
  /\ tmp_files' = r.tmp
  /\ last' = Call("save_segment", term, term_info, update, <<>>, NotMapping,
                  <<>>, 0, 0, r.result, Found("none", 0, <<>>),
                  has_record(index_files, term),
                  load_segment(index_files, term).value)

SaveSegment ==
  /\ nops < MaxOps
  /\ \E term \in SaveTerms, term_info \in SavePostings, update \in BOOLEAN,
        fault \in Faults :
       \E order \in IF update THEN Orders ELSE { AscendingOrder } :
         SaveSegmentStep(save_segment(index_files, tmp_files, term, term_info,
                                      update, fault, order),
                         term, term_info, update)
  /\ nops' = nops + 1
  /\ UNCHANGED << doc_files, stats_files, index_ok, writer, reader, ret, calls,
                  saved >>

IndexStep(r, doc_id, document) ==
  /\ index_files' = r.index
  /\ tmp_files' = r.tmp
  /\ doc_files' = r.docs
  /\ stats_files' = r.stats
  /\ index_ok' = IF r.result = "ok" THEN index_ok + 1 ELSE index_ok
  /\ last' = Call("index", <<>>, <<>>, FALSE, doc_id, document, <<>>, 0, 0,
                  r.result, Found("none", 0, <<>>), FALSE, <<>>)

Index ==
  /\ nops < MaxOps
  /\ \E raw_doc_id \in RawDocIds, document \in Documents, plan \in Plans,
        order \in Orders :
       IndexStep(index(index_files, tmp_files, doc_files, stats_files,
                       raw_doc_id, document, plan, order),
                 str(raw_doc_id), document)
  /\ nops' = nops + 1
  /\ UNCHANGED << writer, reader, ret, calls, saved >>

Search ==
  /\ nops < MaxOps
  /\ \E query \in Queries, offset \in 0..1, limit \in {1, 20} :
       last' = Call("search", <<>>, <<>>, FALSE, <<>>, NotMapping, query,
                    offset, limit, "ok",
                    search(index_files, doc_files, stats_files, query, offset, limit),
                    FALSE, <<>>)
  /\ nops' = nops + 1
  /\ UNCHANGED << index_files, tmp_files, doc_files, stats_files, index_ok,
                  writer, reader, ret, calls, saved >>

Next == SaveSegment \/ Index \/ Search

Spec == Init /\ [][Next]_vars

\* -------------------------------------------------- one writer, one reader
\* save_segment and load_segment step by step: a step is one system call
\* (or one turn of the loop), and the steps of the two calls interleave.
Rest == << doc_files, stats_files, last, index_ok, nops, ret, calls, saved >>

\* tempfile.NamedTemporaryFile(delete=False)
WBegin ==
  /\ writer.pc = "idle"
  /\ \E term \in SaveTerms, term_info \in SavePostings, update \in BOOLEAN,
        fault \in Faults :
       \E order \in IF update THEN Orders ELSE { AscendingOrder } :
         writer' = [WriterIdle EXCEPT
                      !.pc = "touch", !.term = term, !.term_info = term_info,
                      !.update = update, !.fault = fault, !.order = order,
                      !.new_seg = NewTmpName(tmp_files),
                      !.before = index_files, !.tmp_before = tmp_files]
  /\ tmp_files' = WithFile(tmp_files, NewTmpName(tmp_files), <<>>)
  /\ UNCHANGED << index_files, reader, Rest >>

\* if not os.path.exists(seg_name): touch it
WTouch ==
  /\ writer.pc = "touch"
  /\ index_files' = IF make_segment_name(writer.term) \in DOMAIN index_files
                    THEN index_files
                    ELSE WithFile(index_files, make_segment_name(writer.term), <<>>)
  /\ writer' = [writer EXCEPT !.pc = "open"]
  /\ UNCHANGED << tmp_files, reader, Rest >>

\* open(seg_name, 'r')
WOpen ==
  /\ writer.pc = "open"
  /\ writer' = [writer EXCEPT
                  !.pc = "loop", !.i = 1,
                  !.lines = index_files[make_segment_name(writer.term)]]
  /\ UNCHANGED << index_files, tmp_files, reader, Rest >>

\* The writer after the writes of one turn, or of the write after the loop.
AfterWrites(writes, written, pc) ==
  /\ tmp_files' = WithFile(tmp_files, writer.new_seg,
                           Written(tmp_files[writer.new_seg], writes,
                                   writer.fault.at))
  /\ writer' = IF WriteFails(tmp_files[writer.new_seg], writes, writer.fault.at)
               THEN [writer EXCEPT !.pc = "done", !.result = "IOError"]
               ELSE [writer EXCEPT !.pc = pc, !.written = written,
                                   !.i = writer.i + 1]

LineStep(b) ==
  IF b.err
  THEN /\ writer' = [writer EXCEPT !.pc = "done", !.result = "ValueError"]
       /\ UNCHANGED tmp_files
  ELSE AfterWrites(b.writes, b.written, "loop")

\* One turn of the loop, or the write that follows the loop.
WLine ==
  /\ writer.pc = "loop"
  /\ IF writer.i > Len(writer.lines)
     THEN AfterWrites(IF writer.written THEN <<>>
                      ELSE << make_record(writer.term, writer.term_info) >>,
                      TRUE, "close")
     ELSE LineStep(loop_body(writer.lines[writer.i], writer.term,
                             writer.term_info, writer.update, writer.written,
                             writer.order))
  /\ UNCHANGED << index_files, reader, Rest >>

\* new_seg_file.close()
WClose ==
  /\ writer.pc = "close"
  /\ writer' = [writer EXCEPT !.pc = "rename"]
  /\ UNCHANGED << index_files, tmp_files, reader, Rest >>

Renamed ==
  /\ index_files' = WithFile(index_files, make_segment_name(writer.term),
                             tmp_files[writer.new_seg])
  /\ tmp_files' = WithoutFile(tmp_files, writer.new_seg)
  /\ writer' = [writer EXCEPT !.pc = "done", !.result = "ok"]

\* os.rename(new_seg_file.name, seg_name)
WRename ==
  /\ writer.pc = "rename"
  /\ IF writer.fault.kind \in { "rename", "rename2", "remove" }
     THEN /\ writer' = [writer EXCEPT !.pc = "remove"]
          /\ UNCHANGED << index_files, tmp_files >>
     ELSE Renamed
  /\ UNCHANGED << reader, Rest >>

\* except OSError: os.remove(seg_name)
WRemove ==
  /\ writer.pc = "remove"
  /\ IF writer.fault.kind = "remove"
     THEN /\ writer' = [writer EXCEPT !.pc = "done", !.result = "OSError"]
          /\ UNCHANGED index_files
     ELSE /\ writer' = [writer EXCEPT !.pc = "rename2"]
          /\ index_files' = WithoutFile(index_files, make_segment_name(writer.term))
  /\ UNCHANGED << tmp_files, reader, Rest >>

\* the second os.rename(new_seg_file.name, seg_name)
WRename2 ==
  /\ writer.pc = "rename2"
  /\ IF writer.fault.kind = "rename2"
     THEN /\ writer' = [writer EXCEPT !.pc = "done", !.result = "OSError"]
          /\ UNCHANGED << index_files, tmp_files >>
     ELSE Renamed
  /\ UNCHANGED << reader, Rest >>

ReadTerms == { eybo, fun, gmmk, avo, muk }

RBegin ==
  /\ reader.pc = "idle"
  /\ \E term \in ReadTerms : reader' = [ReaderIdle EXCEPT !.pc = "exists", !.term = term]
  /\ UNCHANGED << index_files, tmp_files, writer, Rest >>

\* if not os.path.exists(seg_name): return {}
RExists ==
  /\ reader.pc = "exists"
  /\ reader' = IF make_segment_name(reader.term) \in DOMAIN index_files
               THEN [reader EXCEPT !.pc = "open"]
               ELSE [reader EXCEPT !.pc = "done"]
  /\ UNCHANGED << index_files, tmp_files, writer, Rest >>

\* open(seg_name, 'r'): IOError when the file is not there any more.
ROpen ==
  /\ reader.pc = "open"
  /\ reader' = IF make_segment_name(reader.term) \in DOMAIN index_files
               THEN [reader EXCEPT
                       !.pc = "scan",
                       !.lines = index_files[make_segment_name(reader.term)]]
               ELSE [reader EXCEPT !.pc = "done", !.err = "IOError"]
  /\ UNCHANGED << index_files, tmp_files, writer, Rest >>

\* The loop of load_segment over the file it opened.
RScan ==
  /\ reader.pc = "scan"
  /\ reader' = [reader EXCEPT !.pc = "done",
                              !.result = scan(reader.lines, 1, reader.term)]
  /\ UNCHANGED << index_files, tmp_files, writer, Rest >>

NextRW ==
  \/ WBegin \/ WTouch \/ WOpen \/ WLine \/ WClose \/ WRename \/ WRemove
  \/ WRename2 \/ RBegin \/ RExists \/ ROpen \/ RScan

SpecRW == Init /\ [][NextRW]_vars

\* ---------------------------------------------------------------- analyzer
\* make_tokens and make_ngrams read and write nothing of the store: they
\* are applied to the strings and the token lists a caller may hold.
Store == << index_files, tmp_files, doc_files, stats_files >>

Idle ==
  /\ last = NoCall /\ nops = 0 /\ index_ok = 0
  /\ writer = WriterIdle /\ reader = ReaderIdle
  /\ calls = NoCalls /\ saved = NoFiles

Lists(items, n) == UNION { [1..k -> items] : k \in 0..n }

BlobChars == { "a", "T", "n", " ", ",", "\\" }

Blobs == Lists(BlobChars, MaxBlob)

TokenPool ==
  { << "a", "b" >>, << "a", "b", "c" >>, << "a", "b", "c", "d" >>,
    << "a", "b", "d" >>, << "a", "b", "c", "d", "e", "f", "g" >> }

TokenLists == Lists(TokenPool, MaxTokens)

InitAnalyzer ==
  /\ index_files = NoFiles /\ tmp_files = NoFiles
  /\ doc_files = NoFiles /\ stats_files = NoFiles
  /\ Idle
  /\ ret \in { Ret("blob", b, <<>>) : b \in Blobs }
             \cup { Ret("tokens", t, <<>>) : t \in TokenLists }

MakeTokens ==
  /\ ret.op = "blob"
  /\ ret' = Ret("make_tokens", ret.arg, make_tokens(ret.arg))
  /\ UNCHANGED << Store, last, index_ok, nops, writer, reader, calls, saved >>

MakeNgrams ==
  /\ ret.op = "tokens"
  /\ ret' = Ret("make_ngrams", ret.arg, make_ngrams(ret.arg))
  /\ UNCHANGED << Store, last, index_ok, nops, writer, reader, calls, saved >>

NextAnalyzer == MakeTokens \/ MakeNgrams

SpecAnalyzer == InitAnalyzer /\ [][NextAnalyzer]_vars

\* ------------------------------------------------- segments as they are found
\* The index directory is what the base directory holds when the object is
\* constructed (setup creates only what is missing): here it holds no
\* segment, or the segment of agnid and agnidi with at most MaxLines lines,
\* some of which may not be records: a line without a tab, a record whose
\* info is not JSON.  The records are in the order save_segment keeps.
SegTerms == { agnid, agnidi }

NoTabLine == [head |-> << "x" >>, json |-> InvalidJson]

BadJsonLine(term) == [head |-> term \o << "\t" >>, json |-> InvalidJson]

SegLines ==
  { make_record(agnid, << << d1, << 0 >> >> >>),
    make_record(agnidi, << << d2, << 1 >> >> >>),
    BadJsonLine(agnid), BadJsonLine(agnidi), NoTabLine }

HasTab(line) == FirstTab(line.head) # 0

SegContents ==
  { c \in Lists(SegLines, MaxLines) :
      \A i, j \in 1..Len(c) :
        (i < j /\ HasTab(c[i]) /\ HasTab(c[j]))
          => (parse_record(c[i])[1] = agnid /\ parse_record(c[j])[1] = agnidi) }

InitSegment ==
  /\ index_files \in { NoFiles }
                     \cup { WithFile(NoFiles, make_segment_name(agnid), c) :
                              c \in SegContents }
  /\ tmp_files = NoFiles /\ doc_files = NoFiles /\ stats_files = NoFiles
  /\ Idle
  /\ ret = NoRet

LoadSegment ==
  /\ \E term \in SegTerms \cup { avo } :
       ret' = Ret("load_segment", term, load_segment(index_files, term))
  /\ UNCHANGED << Store, last, index_ok, nops, writer, reader, calls, saved >>

\* One call of save_segment on the segment as found.
SaveFound ==
  /\ nops = 0
  /\ \E term \in SegTerms, term_info \in SavePostings, update \in BOOLEAN :
       \E order \in IF update THEN Orders ELSE { AscendingOrder } :
         SaveSegmentStep(save_segment(index_files, tmp_files, term, term_info,
                                      update, NoFault, order),
                         term, term_info, update)
  /\ nops' = 1
  /\ UNCHANGED << doc_files, stats_files, index_ok, writer, reader, ret, calls,
                  saved >>

NextSegment == LoadSegment \/ SaveFound

SpecSegment == InitSegment /\ [][NextSegment]_vars

\* --------------------------------------------------------------- documents
\* save_document and load_document called on a documents directory that
\* starts empty.  agnid and agnidi share the directory 000091.
DocIds == { agnid, agnidi, d1 }

\* {"abc": [1, 5]}, {"text": "fun", "abc": [2]}
Payloads ==
  { << << "abc", << 1, 5 >> >> >>,
    << << "text", fun >>, << "abc", << 2 >> >> >> }

DocFaults == { "none", "open", "write" }

InitDocuments ==
  /\ index_files = NoFiles /\ tmp_files = NoFiles
  /\ doc_files = NoFiles /\ stats_files = NoFiles
  /\ Idle
  /\ ret = NoRet

\* saved after a call of save_document: the payload when the call returned,
\* no payload when the write raised after the file was opened, and what it
\* was when nothing was opened.
Saved(doc_id, document, fault) ==
  IF fault = "open" THEN saved
  ELSE WithFile(saved, doc_id,
                [ok |-> fault = "none",
                 value |-> IF fault = "none" THEN document ELSE <<>>])

\* last.had and last.before: whether the document had a file before the
\* call, and what load_document gave for it.
SaveDocument ==
  /\ \E doc_id \in DocIds, document \in Payloads, fault \in DocFaults :
       /\ doc_files' = save_document(doc_files, doc_id, document, fault).docs
       /\ last' = Call("save_document", <<>>, <<>>, FALSE, doc_id,
                       Mapping(document), <<>>, 0, 0,
                       save_document(doc_files, doc_id, document, fault).result,
                       Found("none", 0, <<>>),
                       make_document_name(doc_id) \in DOMAIN doc_files,
                       load_document(doc_files, doc_id).value)
       /\ saved' = Saved(doc_id, document, fault)
  /\ UNCHANGED << index_files, tmp_files, stats_files, index_ok, nops, writer,
                  reader, ret, calls >>

LoadDocument ==
  /\ \E doc_id \in DocIds :
       ret' = Ret("load_document", doc_id,
                  [ok |-> load_document(doc_files, doc_id).ok,
                   value |-> load_document(doc_files, doc_id).value,
                   err |-> load_document_error(doc_files, doc_id)])
  /\ UNCHANGED << Store, last, index_ok, nops, writer, reader, calls, saved >>

NextDocuments == SaveDocument \/ LoadDocument

SpecDocuments == InitDocuments /\ [][NextDocuments]_vars

\* ------------------------------------------------------------------- stats
\* The stats file as it is found (setup does not create it): missing, or a
\* record with a version, with or without total_docs and other keys.
\* -1 stands for a record without total_docs.
StatsTotals == { -1, 0, 2 }

StatsRecord(version, total, notes) ==
  LET r == IF total = -1 THEN [version |-> version]
           ELSE [version |-> version, total_docs |-> total]
  IN IF notes THEN WithFile(r, "notes", "x") ELSE r

StatsRecords ==
  { StatsRecord(v, t, n) :
      v \in { CurrentVersion, "0.8.0" }, t \in StatsTotals, n \in BOOLEAN }

InitStats ==
  /\ index_files = NoFiles /\ tmp_files = NoFiles /\ doc_files = NoFiles
  /\ stats_files \in { NoFiles }
                     \cup { WithFile(NoFiles, "stats.json", r) : r \in StatsRecords }
  /\ Idle
  /\ ret = NoRet

\* nops counts the calls of increment_total_docs made since the last call
\* of read_stats or write_stats, which ret holds.
ReadStats ==
  /\ ret' = Ret("read_stats", <<>>, read_stats(stats_files))
  /\ nops' = 0
  /\ UNCHANGED << Store, last, index_ok, writer, reader, calls, saved >>

WriteStats ==
  /\ \E new_stats \in StatsRecords :
       /\ stats_files' = write_stats(stats_files, new_stats)
       /\ ret' = Ret("write_stats", new_stats, <<>>)
  /\ nops' = 0
  /\ UNCHANGED << index_files, tmp_files, doc_files, last, index_ok, writer,
                  reader, calls, saved >>

IncrementTotalDocs ==
  /\ get_total_docs(stats_files) < MaxTotal
  /\ stats_files' = increment_total_docs(stats_files)
  /\ nops' = nops + 1
  /\ UNCHANGED << index_files, tmp_files, doc_files, last, index_ok, writer,
                  reader, ret, calls, saved >>

NextStats == ReadStats \/ WriteStats \/ IncrementTotalDocs

SpecStats == InitStats /\ [][NextStats]_vars

\* ------------------------------------------------------------------ scorer
\* bm25_relevance reads and writes nothing of the store: it is applied to
\* the terms, document frequencies, term frequencies and totals of
\* test_bm25_relevance, taken in every combination.
hello == << "h", "e", "l", "l", "o" >>
world == << "w", "o", "r", "l", "d" >>

ScoreTerms ==
  { << << hello, << 0 >> >> >>, << << world, << 0 >> >> >>,
    << << hello, << 0 >> >>, << world, << 1 >> >> >>,
    << << world, << 0 >> >>, << hello, << 1 >> >> >> }

\* The dicts with a value of `values` for every term of terms, and those
\* with a value for some of them.
RECURSIVE DictsOver(_, _, _)
DictsOver(terms, values, partial) ==
  IF terms = <<>> THEN { <<>> }
  ELSE { << << terms[1][1], v >> >> \o d :
           v \in values, d \in DictsOver(Tail(terms), values, partial) }
       \cup (IF partial THEN DictsOver(Tail(terms), values, partial) ELSE {})

ScoreArgsOf(t) ==
  { [terms |-> t, matches |-> m, current_doc |-> c, total_docs |-> n] :
      m \in DictsOver(t, { 7, 25 }, FALSE),
      c \in DictsOver(t, { 3, 5 }, TRUE),
      n \in { 17, 175 } }

ScoreArgs == UNION { ScoreArgsOf(t) : t \in ScoreTerms }

InitScorer ==
  /\ index_files = NoFiles /\ tmp_files = NoFiles
  /\ doc_files = NoFiles /\ stats_files = NoFiles
  /\ Idle
  /\ ret \in { Ret("score_args", a, <<>>) : a \in ScoreArgs }

Bm25Relevance ==
  /\ ret.op = "score_args"
  /\ ret' = Ret("bm25_relevance", ret.arg,
                bm25_relevance(ret.arg.terms, ret.arg.matches,
                               ret.arg.current_doc, ret.arg.total_docs))
  /\ UNCHANGED << Store, last, index_ok, nops, writer, reader, calls, saved >>

NextScorer == Bm25Relevance

SpecScorer == InitScorer /\ [][NextScorer]_vars

\* ------------------------------------------------ index taken step by step
\* Calls of index on a freshly created store, taken in the steps between
\* which another call can see the store: up to and with save_document; for
\* each term the open and read of its segment, then the rename; the
\* increment of the stats.  nops counts the calls begun.
InitFresh ==
  /\ index_files = NoFiles /\ tmp_files = NoFiles
  /\ doc_files = NoFiles /\ stats_files = NoFiles
  /\ Idle
  /\ ret = NoRet

\* The call of caller c raised or returned.
Ended(c, doc_id, result) ==
  [IdleCall EXCEPT !.doc_id = doc_id, !.result = result, !.stale = calls[c].stale]

\* What the environment may do to the calls: the faults of save_document,
\* the write to the temporary file that raises (0: none), and what happens
\* to the rename.
RenameKinds == { "none", "rename", "rename2", "remove" }

AnyFault ==
  [doc |-> DocFaults, write |-> 0..MaxFaultWrite, rename |-> RenameKinds]

NoFaults == [doc |-> { "none" }, write |-> { 0 }, rename |-> { "none" }]

IndexBegin(c, env) ==
  /\ calls[c].pc = "idle"
  /\ nops < MaxCalls
  /\ \E raw_doc_id \in RawDocIds, document \in Documents, fault \in env.doc :
       LET b == index_begin(doc_files, raw_doc_id, document, fault) IN
         /\ doc_files' = b.docs
         /\ calls' = [calls EXCEPT ![c] =
                        IF b.result # "ok"
                        THEN [IdleCall EXCEPT !.doc_id = str(raw_doc_id),
                                              !.result = b.result]
                        ELSE [IdleCall EXCEPT !.doc_id = str(raw_doc_id),
                                              !.terms = b.terms, !.i = 1,
                                              !.pc = IF b.terms = <<>> THEN "stats"
                                                     ELSE "open"]]
         /\ saved' = IF document.mapping /\ dict_has(document.fields, "text")
                     THEN Saved(str(raw_doc_id), document.fields, fault)
                     ELSE saved
  /\ nops' = nops + 1
  /\ UNCHANGED << index_files, tmp_files, stats_files, last, index_ok, writer,
                  reader, ret >>

\* Whether the segment of the term holds a posting of the term with the
\* document id: only then update_term_info makes a list of a set.
Merges(term, doc_id) ==
  /\ load_segment(index_files, term).ok
  /\ dict_has(load_segment(index_files, term).value, doc_id)

IndexOpen(c, env) ==
  /\ calls[c].pc = "open"
  /\ \E order \in IF Merges(calls[c].terms[calls[c].i][1], calls[c].doc_id)
                   THEN Orders ELSE { AscendingOrder },
        fault_at \in env.write :
       LET o == save_segment_open(index_files, tmp_files,
                                  calls[c].terms[calls[c].i][1],
                                  << << calls[c].doc_id,
                                        calls[c].terms[calls[c].i][2] >> >>,
                                  TRUE, fault_at, order)
       IN
         /\ index_files' = o.index
         /\ tmp_files' = o.tmp
         /\ calls' = [calls EXCEPT ![c] =
                        IF o.err # "none" THEN Ended(c, calls[c].doc_id, o.err)
                        ELSE [calls[c] EXCEPT !.pc = "rename",
                                              !.new_seg = o.new_seg,
                                              !.snap = o.snap]]
  /\ UNCHANGED << doc_files, stats_files, last, index_ok, nops, writer, reader,
                  ret, saved >>

\* Whether the segment is no longer what the call read.
Stale(c, seg_name) ==
  \/ seg_name \notin DOMAIN index_files
  \/ index_files[seg_name] # calls[c].snap

IndexRename(c, env) ==
  /\ calls[c].pc = "rename"
  /\ \E kind \in env.rename :
       LET seg_name == make_segment_name(calls[c].terms[calls[c].i][1])
           r == save_segment_rename(index_files, tmp_files, seg_name,
                                    calls[c].new_seg, kind)
       IN
         /\ index_files' = r.index
         /\ tmp_files' = r.tmp
         /\ calls' = [calls EXCEPT ![c] =
                        IF r.result # "ok" THEN Ended(c, calls[c].doc_id, r.result)
                        ELSE [calls[c] EXCEPT
                                !.i = @ + 1,
                                !.pc = IF calls[c].i < Len(calls[c].terms)
                                       THEN "open" ELSE "stats",
                                !.stale = IF Stale(c, seg_name)
                                          THEN @ \cup { seg_name } ELSE @]]
  /\ UNCHANGED << doc_files, stats_files, last, index_ok, nops, writer, reader,
                  ret, saved >>

IndexStats(c) ==
  /\ calls[c].pc = "stats"
  /\ stats_files' = increment_total_docs(stats_files)
  /\ index_ok' = index_ok + 1
  /\ calls' = [calls EXCEPT ![c] = Ended(c, calls[c].doc_id, "ok")]
  /\ UNCHANGED << index_files, tmp_files, doc_files, last, nops, writer, reader,
                  ret, saved >>

\* "fun", "funk", "the", ", !", "ab"
SearchQueries ==
  { fun, funk, << "t", "h", "e" >>, << ",", " ", "!" >>, << "a", "b" >> }

\* A search made while calls of index may be in progress.
SearchNow ==
  /\ \E query \in SearchQueries, offset \in 0..1, limit \in { 20 } :
       /\ last' = Call("search", <<>>, <<>>, FALSE, <<>>, NotMapping, query,
                       offset, limit, "ok",
                       search(index_files, doc_files, stats_files, query,
                              offset, limit),
                       FALSE, <<>>)
       /\ index_files' = search_leaves(index_files, tmp_files, doc_files,
                                       stats_files, query).index
       /\ tmp_files' = search_leaves(index_files, tmp_files, doc_files,
                                     stats_files, query).tmp
       /\ doc_files' = search_leaves(index_files, tmp_files, doc_files,
                                     stats_files, query).docs
       /\ stats_files' = search_leaves(index_files, tmp_files, doc_files,
                                       stats_files, query).stats
  /\ UNCHANGED << index_ok, nops, writer, reader, ret, calls, saved >>

\* One caller of index, under every fault.
NextWriter ==
  \/ IndexBegin(1, AnyFault) \/ IndexOpen(1, AnyFault)
  \/ IndexRename(1, AnyFault) \/ IndexStats(1)

SpecWriter == InitFresh /\ [][NextWriter]_vars

\* One caller of index that meets no fault, and searches at any point
\* between its steps.
NextReader ==
  \/ IndexBegin(1, NoFaults) \/ IndexOpen(1, NoFaults)
  \/ IndexRename(1, NoFaults) \/ IndexStats(1)
  \/ SearchNow

SpecReader == InitFresh /\ [][NextReader]_vars

\* Two callers of index at once that meet no fault.
NextWriters ==
  \E c \in Callers :
    \/ IndexBegin(c, NoFaults) \/ IndexOpen(c, NoFaults)
    \/ IndexRename(c, NoFaults) \/ IndexStats(c)

SpecWriters == InitFresh /\ [][NextWriters]_vars

\* ------------------------------------------------------------------ claims
AllTerms == { eybo, fun, gmmk, avo, muk }

SegmentOfFun == "77004e"

IsSave == last.op = "save_segment"

\* The terms of the lines of a segment file, in the order of the file.
TermsOf(lines) == [i \in 1..Len(lines) |-> parse_record(lines[i])[1]]

\* a < b by code point, written without the comparison of the code.
RECURSIVE CodeLess(_, _)
CodeLess(a, b) ==
  IF b = <<>> THEN FALSE
  ELSE IF a = <<>> THEN TRUE
  ELSE IF ord(a[1]) = ord(b[1]) THEN CodeLess(Tail(a), Tail(b))
  ELSE ord(a[1]) < ord(b[1])

\* Two postings hold the same doc ids with the same sets of positions.
SameSets(a, b) ==
  /\ dict_keys(a) = dict_keys(b)
  /\ \A d \in dict_keys(a) : set_of(dict_get(a, d)) = set_of(dict_get(b, d))

\* The line of the record of term u in the index directory, <<>> when none.
LineOf(index_dir, u) ==
  IF has_record(index_dir, u)
  THEN << index_dir[make_segment_name(u)]
            [CHOOSE i \in 1..Len(index_dir[make_segment_name(u)]) :
               parse_record(index_dir[make_segment_name(u)][i])[1] = u] >>
  ELSE <<>>

\* The index directory the save of the writer leaves when it completes.
Completed ==
  save_segment(writer.before, writer.tmp_before, writer.term, writer.term_info,
               writer.update, NoFault, writer.order).index

ReaderSawOldOrNew ==
  /\ reader.err = "none"
  /\ reader.result \in { load_segment(writer.before, reader.term),
                         load_segment(Completed, reader.term) }
  /\ load_segment(writer.before, reader.term).value # <<>>
       => reader.result.value # <<>>

\* C1: with a writer in save_segment and a reader in load_segment, wherever
\* their steps interleave, load_segment returns the posting its term had
\* before the save began or the one it has after the save completed, never
\* an error, never an empty posting for a term that had one.
C1_ReaderSeesOldOrNew ==
  (reader.pc = "done" /\ writer.pc # "idle") => ReaderSawOldOrNew

\* C1, for the saves whose first os.rename succeeds.
ReaderSeesOldOrNewOnRename ==
  (/\ reader.pc = "done" /\ writer.pc # "idle"
   /\ writer.fault.kind \notin { "rename", "rename2", "remove" })
  => ReaderSawOldOrNew

\* Step by step, save_segment leaves what save_segment as a whole leaves.
WriterAgreesWithSaveSegment ==
  writer.pc = "done"
  => LET r == save_segment(writer.before, writer.tmp_before, writer.term,
                           writer.term_info, writer.update, writer.fault,
                           writer.order)
     IN /\ index_files = r.index
        /\ tmp_files = r.tmp
        /\ writer.result = r.result

\* C2: whenever save_segment raises, load_segment of every term returns what
\* it returned before the call.
C2_FailedSaveKeepsSegment ==
  [][ (last'.op = "save_segment" /\ last'.result # "ok")
      => \A t \in AllTerms :
           load_segment(index_files', t) = load_segment(index_files, t) ]_vars

\* C3: after save_segment(t, p) in overwrite mode has returned, whatever
\* the segment held, load_segment(t) returns p.
C3_OverwriteThenLoad ==
  (IsSave /\ last.result = "ok" /\ ~last.update)
  => /\ load_segment(index_files, last.term).ok
     /\ DictEq(load_segment(index_files, last.term).value, last.term_info)

\* fun was overwritten in a segment that held an older record of it, a
\* record that sorts before it and one that sorts after it.
C3_Witness ==
  /\ IsSave /\ last.result = "ok" /\ ~last.update
  /\ last.term = fun /\ last.had
  /\ ~DictEq(last.before, last.term_info)
  /\ has_record(index_files, eybo) /\ has_record(index_files, gmmk)

\* C4: after save_segment(t, new, update=True) has returned on a segment
\* where t had the posting old, load_segment(t) holds the doc ids of old and
\* new and no other; a doc id of new has the union of its old and its new
\* positions, a doc id of old alone has its old positions unchanged.
C4_MergeUnion ==
  (IsSave /\ last.result = "ok" /\ last.update /\ last.had)
  => LET now == load_segment(index_files, last.term).value
         old == last.before
         new == last.term_info
     IN /\ load_segment(index_files, last.term).ok
        /\ dict_keys(now) = dict_keys(old) \cup dict_keys(new)
        /\ \A d \in dict_keys(new) :
             set_of(dict_get(now, d))
               = set_of(dict_get(new, d))
                 \cup (IF dict_has(old, d) THEN set_of(dict_get(old, d)) ELSE {})
        /\ \A d \in dict_keys(old) \ dict_keys(new) :
             dict_get(now, d) = dict_get(old, d)

\* A merge onto a record that gave a doc id positions the new posting has
\* not, and that kept a doc id the new posting has not.
C4_Witness ==
  /\ IsSave /\ last.result = "ok" /\ last.update /\ last.had
  /\ \E d \in dict_keys(last.term_info) \cap dict_keys(last.before) :
       set_of(dict_get(load_segment(index_files, last.term).value, d))
         # set_of(dict_get(last.term_info, d))
  /\ dict_keys(last.before) \ dict_keys(last.term_info) # {}

\* C5: after save_segment(t, p, update=True) has returned, the same call
\* again leaves load_segment(t), per doc id as a set of positions, and the
\* record of every other term as they are.
C5_MergeIdempotent ==
  (IsSave /\ last.result = "ok" /\ last.update)
  => \A order \in Orders :
       LET again == save_segment(index_files, tmp_files, last.term,
                                 last.term_info, TRUE, NoFault, order)
       IN /\ again.result = "ok"
          /\ SameSets(load_segment(again.index, last.term).value,
                      load_segment(index_files, last.term).value)
          /\ \A u \in AllTerms \ { last.term } :
               LineOf(again.index, u) = LineOf(index_files, u)

\* A merge that added positions to a record, in a segment of three terms.
C5_Witness ==
  /\ IsSave /\ last.result = "ok" /\ last.update /\ last.had
  /\ ~SameSets(last.before, load_segment(index_files, last.term).value)
  /\ ~SameSets(last.term_info, load_segment(index_files, last.term).value)
  /\ SegmentOfFun \in DOMAIN index_files
  /\ Len(index_files[SegmentOfFun]) = 3

\* C6: in every segment file the terms of the records are in strictly
\* ascending order (so no term has two records).
C6_SegmentsSorted ==
  \A n \in DOMAIN index_files :
    \A i \in 1..(Len(index_files[n]) - 1) :
      CodeLess(TermsOf(index_files[n])[i], TermsOf(index_files[n])[i + 1])

\* A call made a segment of three terms out of one of two.
C6_Witness ==
  /\ last.op \in { "save_segment", "index" } /\ last.result = "ok"
  /\ ~last.had
  /\ SegmentOfFun \in DOMAIN index_files
  /\ TermsOf(index_files[SegmentOfFun]) = << eybo, fun, gmmk >>

\* What save_segment is to leave alone: the line of every other term, every
\* other segment file, the documents and the stats.
SaveFrame ==
  /\ \A u \in AllTerms \ { last'.term } :
       LineOf(index_files', u) = LineOf(index_files, u)
  /\ \A n \in (DOMAIN index_files \cup DOMAIN index_files')
                \ { make_segment_name(last'.term) } :
       /\ n \in DOMAIN index_files /\ n \in DOMAIN index_files'
       /\ index_files'[n] = index_files[n]
  /\ doc_files' = doc_files
  /\ stats_files' = stats_files

\* C7: save_segment, in either mode, leaves the line of every other term,
\* every other segment file, the documents and the stats unchanged.
C7_SaveFrame == [][ last'.op = "save_segment" => SaveFrame ]_vars

\* C7, for the calls that return True.
ReturnedSaveFrame ==
  [][ (last'.op = "save_segment" /\ last'.result = "ok") => SaveFrame ]_vars

\* C8: index of a document that is no mapping raises AttributeError, index
\* of a mapping without a text field raises KeyError, and either leaves the
\* four directories as they were.
C8_SchemaErrorNoEffect ==
  [][ last'.op = "index"
      => /\ ~last'.document.mapping
              => /\ last'.result = "AttributeError"
                 /\ UNCHANGED << index_files, tmp_files, doc_files, stats_files >>
         /\ (last'.document.mapping /\ ~dict_has(last'.document.fields, "text"))
              => /\ last'.result = "KeyError"
                 /\ UNCHANGED << index_files, tmp_files, doc_files, stats_files >>
    ]_vars

\* index raised KeyError on a store that holds segments, documents and stats.
C8_Witness ==
  /\ last.op = "index" /\ last.result = "KeyError"
  /\ DOMAIN index_files # {} /\ DOMAIN doc_files # {} /\ DOMAIN stats_files # {}

\* C9: total_docs is the number of index calls that returned True.
C9_TotalDocsCountsSuccesses == get_total_docs(stats_files) = index_ok

\* The third successful index call was counted, though it indexed again one
\* of the two documents.
C9_Witness ==
  /\ last.op = "index" /\ last.result = "ok"
  /\ index_ok = 3 /\ Cardinality(DOMAIN doc_files) = 2

\* C10: search of the empty query, and search on a store whose total_docs
\* is 0, return total_hits 0 and no results, without error.
C10_EmptySearch ==
  (last.op = "search" /\ (last.query = <<>> \/ get_total_docs(stats_files) = 0))
  => last.found = Found("none", 0, <<>>)

\* search for fun on a store without stats that holds a record of fun and
\* a document.
C10_Witness ==
  /\ last.op = "search" /\ last.query = fun
  /\ get_total_docs(stats_files) = 0
  /\ has_record(index_files, fun) /\ DOMAIN doc_files # {}

\* ----------------------------------------------------------- search claims
IsSearch == last.op = "search"

TotalDocs == get_total_docs(stats_files)

QueryTerms(query) == dict_keys(parse_query(query))

Posting(t) == load_segment(index_files, t).value

\* The doc ids in the stored posting of at least one term of the query.
Candidates(query) == UNION { dict_keys(Posting(t)) : t \in QueryTerms(query) }

ResultIds(found) ==
  { dict_get(found.results[i], "id") : i \in 1..Len(found.results) }

SearchAt(offset, limit) ==
  search(index_files, doc_files, stats_files, last.query, offset, limit)

\* C11: search of a non-empty query on a store with total_docs > 0 returns,
\* whatever the offset and the limit, total_hits equal to the number of doc
\* ids in the posting of at least one query term, and over all pages the
\* documents of exactly those doc ids.
C11_TotalHits ==
  (IsSearch /\ last.query # <<>> /\ TotalDocs > 0)
  => /\ last.found.err = "none"
     /\ \A o \in 0..2, l \in { 1, 20 } :
          /\ SearchAt(o, l).err = "none"
          /\ SearchAt(o, l).total_hits = Cardinality(Candidates(last.query))
     /\ UNION { ResultIds(SearchAt(o, 1)) :
                  o \in 0..Cardinality(Candidates(last.query)) }
          = Candidates(last.query)

\* C11, for the searches that return.
TotalHitsWhenReturned ==
  (IsSearch /\ last.query # <<>> /\ TotalDocs > 0 /\ last.found.err = "none")
  => /\ last.found.total_hits = Cardinality(Candidates(last.query))
     /\ ResultIds(last.found) \subseteq Candidates(last.query)
     /\ (last.offset = 0 /\ last.limit >= last.found.total_hits)
          => ResultIds(last.found) = Candidates(last.query)

\* Every query term matches at most total_docs documents, and every
\* candidate has its document.
Searchable ==
  /\ \A t \in QueryTerms(last.query) : Len(Posting(t)) <= TotalDocs
  /\ \A d \in Candidates(last.query) : make_document_name(d) \in DOMAIN doc_files

\* C12: a search whose query has a term that matches no document and a term
\* that matches one completes without error and returns the matching
\* documents.
C12_ZeroFrequencyGuarded ==
  (/\ IsSearch /\ TotalDocs > 0 /\ Searchable
   /\ \E t \in QueryTerms(last.query) : Posting(t) = <<>>
   /\ \E u \in QueryTerms(last.query) : Posting(u) # <<>>)
  => /\ last.found.err = "none"
     /\ last.found.total_hits = Cardinality(Candidates(last.query))

\* The scored candidates of the last search, in the order collected.
Scored ==
  LET terms     == parse_query(last.query)
      collected == collect_results(index_files, terms, 1, <<>>, <<>>)
  IN score_results(collected.per_doc_counts, 1, terms, collected.per_term_docs,
                   TotalDocs, <<>>).scored

\* The place of the i-th scored candidate in the descending stable order.
Rank(i) ==
  1 + Cardinality({ j \in 1..Len(Scored) :
                      \/ Scored[j].score > Scored[i].score
                      \/ Scored[j].score = Scored[i].score /\ j < i })

Ranked == [k \in 1..Len(Scored) |-> Scored[CHOOSE i \in 1..Len(Scored) : Rank(i) = k]]

PageLen == Min(last.limit, Max(0, last.found.total_hits - last.offset))

\* C13: the results of search are in non-increasing score order and are
\* the elements [offset, offset + limit) of the candidates sorted by
\* descending score, candidates of equal score in the order collected; they
\* are min(limit, max(0, total_hits - offset)) many.
C13_SortedSlice ==
  (IsSearch /\ last.found.err = "none" /\ last.query # <<>> /\ TotalDocs > 0)
  => /\ last.found.total_hits = Len(Scored)
     /\ Len(last.found.results) = PageLen
     /\ \A k \in 1..PageLen :
          /\ dict_get(last.found.results[k], "id") = Ranked[last.offset + k].id
          /\ dict_get(last.found.results[k], "score") = Ranked[last.offset + k].score
     /\ \A k \in 1..(PageLen - 1) :
          dict_get(last.found.results[k], "score")
            >= dict_get(last.found.results[k + 1], "score")

\* A search returned two documents, the second collected first.
C13_Witness ==
  /\ IsSearch /\ last.found.err = "none"
  /\ Len(last.found.results) = 2
  /\ dict_get(last.found.results[1], "score")
       > dict_get(last.found.results[2], "score")
  /\ dict_get(last.found.results[1], "id") = Scored[2].id

\* A search returned the second of two documents of equal score.
TiedPageReached ==
  /\ IsSearch /\ last.found.err = "none" /\ last.offset = 1
  /\ Len(last.found.results) = 1 /\ Len(Scored) = 2
  /\ Scored[1].score = Scored[2].score
  /\ dict_get(last.found.results[1], "id") = Scored[2].id

\* The payload stored for the document of a doc id.
Payload(doc_id) == json_loads(doc_files[make_document_name(doc_id)]).value

Returned == IsSearch /\ last.found.err = "none" /\ last.query # <<>> /\ TotalDocs > 0

\* The k-th record of the results has the id and the score of its candidate.
HasIdAndScore(k) ==
  /\ dict_has(last.found.results[k], "id")
  /\ dict_get(last.found.results[k], "id") = Ranked[last.offset + k].id
  /\ dict_has(last.found.results[k], "score")
  /\ dict_get(last.found.results[k], "score") = Ranked[last.offset + k].score

\* The k-th record of the results has the fields `fields` of its payload.
HasFields(k, fields) ==
  \A f \in fields :
    /\ dict_has(last.found.results[k], f)
    /\ dict_get(last.found.results[k], f)
         = dict_get(Payload(Ranked[last.offset + k].id), f)

\* C14 as claimed: every record of the results has all the fields of the
\* stored payload with their stored values, and the id and the score of the
\* search, also when the payload has a field named id or score.
C14_AllPayloadFields ==
  Returned
  => \A k \in 1..Len(last.found.results) :
       /\ HasIdAndScore(k)
       /\ HasFields(k, dict_keys(Payload(Ranked[last.offset + k].id)))

\* C14 as amended: every record of the results has the fields of the
\* stored payload that are not named id or score with their stored values,
\* the doc id as id and the computed score as score, and no other field; a
\* payload field named id or score is replaced.
C14_PayloadFieldsButIdScore ==
  Returned
  => \A k \in 1..Len(last.found.results) :
       /\ HasIdAndScore(k)
       /\ HasFields(k, dict_keys(Payload(Ranked[last.offset + k].id))
                         \ { "id", "score" })
       /\ dict_keys(last.found.results[k])
            = dict_keys(Payload(Ranked[last.offset + k].id)) \cup { "id", "score" }

\* A record was returned for a payload that has a field id that is not the
\* doc id, a field score and a field subject.
C14_Witness ==
  /\ Returned /\ Len(last.found.results) >= 1
  /\ \E k \in 1..Len(last.found.results) :
       LET p == Payload(Ranked[last.offset + k].id) IN
         /\ { "id", "score", "subject" } \subseteq dict_keys(p)
         /\ dict_get(p, "id") # Ranked[last.offset + k].id
         /\ dict_get(last.found.results[k], "subject") = dict_get(p, "subject")

\* ------------------------------------------------------ append-only claim
IndexedTerms == { fun, avo, muk, eybo, gmmk }

\* Every doc id of every posting is kept, with at least its positions.
PostingsKept ==
  \A t \in IndexedTerms :
    \A d \in dict_keys(load_segment(index_files, t).value) :
      /\ dict_has(load_segment(index_files', t).value, d)
      /\ set_of(dict_get(load_segment(index_files, t).value, d))
           \subseteq set_of(dict_get(load_segment(index_files', t).value, d))

\* C15: an index call removes no doc id from a posting and no position from
\* the positions of a (term, doc id) pair.
C15_AppendOnly == [][ last'.op = "index" => PostingsKept ]_vars

\* C15, for the index calls that return True.
AppendOnlyWhenReturned ==
  [][ (last'.op = "index" /\ last'.result = "ok") => PostingsKept ]_vars

\* d1 was indexed again with a text without avo: avo still has d1 in its
\* posting, and the payload of d1 is the new one.
ReindexKeepsOldTerm ==
  /\ last.op = "index" /\ last.result = "ok" /\ last.doc_id = d1
  /\ ~dict_has(make_ngrams(make_tokens(dict_get(last.document.fields, "text"))), avo)
  /\ dict_has(load_segment(index_files, avo).value, d1)
  /\ Payload(d1) = last.document.fields

\* ----------------------------------------------------- duplicates claim
NoDuplicates(list) == Cardinality(set_of(list)) = Len(list)

NoDuplicatesIn(posting) ==
  \A d \in dict_keys(posting) : NoDuplicates(dict_get(posting, d))

NoDuplicatesStored(index_dir) ==
  \A t \in AllTerms : NoDuplicatesIn(load_segment(index_dir, t).value)

\* C19: the position list stored for every (term, doc id) pair holds no
\* position twice.
C19_NoDuplicatePositions == NoDuplicatesStored(index_files)

\* C19, for the calls of save_segment whose posting holds no position twice.
DuplicatesOnlyFromCaller ==
  [][ (/\ NoDuplicatesStored(index_files)
       /\ last'.op = "save_segment" => NoDuplicatesIn(last'.term_info))
      => NoDuplicatesStored(index_files') ]_vars

\* --------------------------------------------------------- analyzer claims
\* The punctuation class as the claim lists it: the backslash included.
ClaimedPunctuation == PUNCTUATION \cup { "\\" }

\* Whether the characters of token stand in text from place i on.
StandsAt(token, text, i) ==
  /\ i + Len(token) - 1 <= Len(text)
  /\ \A k \in 1..Len(token) : text[i + k - 1] = token[k]

\* Whether the tokens stand in text one after the other, from place `from` on.
RECURSIVE InOrder(_, _, _)
InOrder(tokens, text, from) ==
  IF tokens = <<>> THEN TRUE
  ELSE /\ \E i \in from..Len(text) : StandsAt(tokens[1], text, i)
       /\ InOrder(Tail(tokens), text,
                  Len(tokens[1])
                    + CHOOSE i \in from..Len(text) :
                        /\ StandsAt(tokens[1], text, i)
                        /\ \A j \in from..(i - 1) : ~StandsAt(tokens[1], text, j))

\* Every token is lowercase, not empty, no stopword, and holds no
\* whitespace and no character of the class; the tokens are in input order.
TokensClean(class) ==
  ret.op = "make_tokens"
  => /\ \A n \in 1..Len(ret.value) :
          /\ ret.value[n] # <<>>
          /\ ret.value[n] \notin STOP_WORDS
          /\ \A k \in 1..Len(ret.value[n]) :
               /\ ~IsIn(Upper, ret.value[n][k])
               /\ ret.value[n][k] \notin Whitespace
               /\ ret.value[n][k] \notin class
     /\ InOrder(ret.value, lower(ret.arg), 1)

\* C16: every token of make_tokens is lowercase, not empty, no stopword,
\* and holds no whitespace and no character of the punctuation class, the
\* backslash included; the tokens are in input order.
C16_TokensClean == TokensClean(ClaimedPunctuation)

\* C16, for the class the pattern of the code matches.
TokensCleanOfMatched == TokensClean(PUNCTUATION)

\* The tokens and the places (0-based) of a token list that begin with gram.
HasPrefix(token, gram) ==
  Len(token) >= Len(gram) /\ SubSeq(token, 1, Len(gram)) = gram

PlacesOf(tokens, gram) ==
  { i - 1 : i \in { j \in 1..Len(tokens) : HasPrefix(tokens[j], gram) } }

FrontGrams(tokens) ==
  UNION { { SubSeq(tokens[i], 1, L) : L \in 3..Min(6, Len(tokens[i])) } :
            i \in 1..Len(tokens) }

Increasing(list) == \A i, j \in 1..Len(list) : i < j => list[i] < list[j]

\* C17: the keys of make_ngrams are the prefixes of length 3 to
\* min(6, len(token)) of the tokens, and each maps to the positions of the
\* tokens that have the prefix, increasing and without duplicates.
C17_FrontGrams ==
  ret.op = "make_ngrams"
  => /\ dict_keys(ret.value) = FrontGrams(ret.arg)
     /\ \A g \in dict_keys(ret.value) :
          /\ Increasing(dict_get(ret.value, g))
          /\ set_of(dict_get(ret.value, g)) = PlacesOf(ret.arg, g)

\* The grams of a list with a token of 2 characters at position 0, a token
\* of 7 characters and a token that shares a prefix with it.
C17_Witness ==
  /\ ret.op = "make_ngrams"
  /\ Len(ret.arg) = 3 /\ Len(ret.arg[1]) = 2
  /\ \E i \in 2..3 : Len(ret.arg[i]) = 7
  /\ dict_has(ret.value, << "a", "b", "c" >>)
  /\ dict_get(ret.value, << "a", "b", "c" >>) = << 1, 2 >>
  /\ dict_has(ret.value, << "a", "b", "c", "d", "e", "f" >>)

\* ---------------------------------------------------------- segment claims
\* A step that is a call of load_segment, and one that is a call of
\* save_segment.
IsLoad == ret' # ret /\ ret'.op = "load_segment"

IsSaveFound == nops' # nops /\ last'.op = "save_segment"

\* The lines of the segment file of term before the step.
SegmentOf(term) == index_files[make_segment_name(term)]

HasSegment(term) == make_segment_name(term) \in DOMAIN index_files

\* A line that is "<term>\t<text>", and one whose text is a JSON object.
IsLineOf(line, term) == line.head = term \o << "\t" >>

WellFormed(line) == HasTab(line) /\ line.json.kind = "object"

Malformed(line) == ~WellFormed(line)

\* C18: load_segment returns {} when the segment file of the term does not
\* exist or holds only records of other terms (prefixes and extensions of
\* the term among them), else the posting of the record of exactly the
\* term; and it leaves every file as it was.
C18_LoadSegmentExact ==
  [][IsLoad =>
       /\ UNCHANGED Store
       /\ ~HasSegment(ret'.arg)
            => ret'.value = [ok |-> TRUE, value |-> <<>>]
       /\ ( /\ HasSegment(ret'.arg)
            /\ \A i \in 1..Len(SegmentOf(ret'.arg)) :
                 /\ WellFormed(SegmentOf(ret'.arg)[i])
                 /\ ~IsLineOf(SegmentOf(ret'.arg)[i], ret'.arg) )
            => ret'.value = [ok |-> TRUE, value |-> <<>>]
       /\ HasSegment(ret'.arg)
            => \A i \in 1..Len(SegmentOf(ret'.arg)) :
                 ( /\ \A j \in 1..Len(SegmentOf(ret'.arg)) :
                        WellFormed(SegmentOf(ret'.arg)[j])
                   /\ IsLineOf(SegmentOf(ret'.arg)[i], ret'.arg)
                   /\ \A j \in 1..(i - 1) :
                        ~IsLineOf(SegmentOf(ret'.arg)[j], ret'.arg) )
                 => ret'.value =
                      [ok |-> TRUE,
                       value |-> SegmentOf(ret'.arg)[i].json.members]
  ]_vars

\* agnidi was loaded from the segment as found, where its record follows
\* the record of its prefix agnid.
C18_Witness ==
  /\ nops = 0
  /\ ret = Ret("load_segment", agnidi,
               [ok |-> TRUE, value |-> << << d2, << 1 >> >> >>])
  /\ HasSegment(agnidi)
  /\ SegmentOf(agnidi) = << make_record(agnid, << << d1, << 0 >> >> >>),
                            make_record(agnidi, << << d2, << 1 >> >> >>) >>

\* agnid was loaded from a segment that holds only the record of agnidi,
\* and avo from a store without its segment.
OtherTermsOnlyReached ==
  /\ nops = 0
  /\ ret = Ret("load_segment", agnid, [ok |-> TRUE, value |-> <<>>])
  /\ HasSegment(agnid)
  /\ SegmentOf(agnid) = << make_record(agnidi, << << d2, << 1 >> >> >>) >>

MissingSegmentReached ==
  /\ ret = Ret("load_segment", avo, [ok |-> TRUE, value |-> <<>>])
  /\ ~HasSegment(avo)
  /\ HasSegment(agnid)

\* Whether some line of the segment of term is malformed.
HasMalformed(term) ==
  /\ HasSegment(term)
  /\ \E i \in 1..Len(SegmentOf(term)) : Malformed(SegmentOf(term)[i])

ReadUpTo(term) ==
  IF \E i \in 1..Len(SegmentOf(term)) : IsLineOf(SegmentOf(term)[i], term)
  THEN CHOOSE i \in 1..Len(SegmentOf(term)) :
         /\ IsLineOf(SegmentOf(term)[i], term)
         /\ \A j \in 1..(i - 1) : ~IsLineOf(SegmentOf(term)[j], term)
  ELSE Len(SegmentOf(term))

\* The malformed lines each operation meets: load_segment splits every
\* line it reads and parses the JSON of the record of the term only;
\* save_segment splits every line of the file and parses the JSON of the
\* record of the term only, and only on an update.
LoadMeets(term) ==
  /\ HasSegment(term)
  /\ \E i \in 1..ReadUpTo(term) :
       \/ ~HasTab(SegmentOf(term)[i])
       \/ /\ IsLineOf(SegmentOf(term)[i], term)
          /\ SegmentOf(term)[i].json.kind # "object"

SaveMeets(term, update) ==
  /\ HasSegment(term)
  /\ \E i \in 1..Len(SegmentOf(term)) :
       \/ ~HasTab(SegmentOf(term)[i])
       \/ /\ update
          /\ IsLineOf(SegmentOf(term)[i], term)
          /\ SegmentOf(term)[i].json.kind # "object"

BadJsonOfTermReached ==
  /\ nops = 0
  /\ ret = Ret("load_segment", agnid, [ok |-> FALSE, value |-> <<>>])
  /\ SegmentOf(agnid) = << BadJsonLine(agnid) >>

\* save_segment raised on a line without a tab after the record of the term.
SaveRaisedReached ==
  /\ nops = 1
  /\ last.op = "save_segment" /\ last.term = agnid /\ ~last.update
  /\ last.result = "ValueError"
  /\ SegmentOf(agnid) = << make_record(agnid, << << d1, << 0 >> >> >>),
                           NoTabLine >>

\* A malformed line that was not met: load_segment returned the posting of
\* agnid though a line without a tab follows its record.
UnmetMalformedReached ==
  /\ nops = 0
  /\ ret = Ret("load_segment", agnid,
               [ok |-> TRUE, value |-> << << d1, << 0 >> >> >>])
  /\ SegmentOf(agnid) = << make_record(agnid, << << d1, << 0 >> >> >>),
                           NoTabLine >>

\* ------------------------------------------------------ temporary files
\* C25: a call of save_segment that raises (on a line it cannot parse, on
\* a write, on the rename) leaves no temporary file of its own: the
\* temporary directory is as it was before the call.
C25_FailedSaveRemovesTemp ==
  [][(last'.op = "save_segment" /\ last'.result # "ok")
       => tmp_files' = tmp_files]_vars

\* A call of save_segment that returns True leaves no temporary file.
ReturnedSaveLeavesNoTemp ==
  [][(last'.op = "save_segment" /\ last'.result = "ok")
       => tmp_files' = tmp_files]_vars

\* --------------------------------------------------------- document claims
IsLoadDocument == ret' # ret /\ ret'.op = "load_document"

IsSaveDocument == last' # last /\ last'.op = "save_document"

\* C21: load_document(d) returns the payload of the most recent
\* save_document(d, payload), whatever was saved under other ids since
\* (ids of the same directory among them); save_document replaces the
\* payload the id had; load_document of an id never saved raises the
\* error of a missing file and returns nothing.
C21_LoadReturnsLastSaved ==
  [][/\ IsLoadDocument
          => /\ UNCHANGED Store
             /\ ret'.arg \notin DOMAIN saved
                  => ret'.value = [ok |-> FALSE, value |-> <<>>, err |-> "IOError"]
             /\ (ret'.arg \in DOMAIN saved /\ saved[ret'.arg].ok)
                  => ret'.value = [ok |-> TRUE, value |-> saved[ret'.arg].value,
                                   err |-> "none"]
     /\ (IsSaveDocument /\ last'.result = "ok")
          => /\ load_document(doc_files', last'.doc_id)
                  = [ok |-> TRUE, value |-> last'.document.fields]
             /\ \A d \in DocIds \ { last'.doc_id } :
                  /\ load_document(doc_files', d) = load_document(doc_files, d)
                  /\ load_document_error(doc_files', d)
                       = load_document_error(doc_files, d)
  ]_vars

\* agnidi was loaded after a save under agnid, of its directory, that gave
\* another payload: it came back with the payload last saved for agnidi.
C21_Witness ==
  /\ ret.op = "load_document" /\ ret.arg = agnidi
  /\ ret.value.ok
  /\ ret.value.value = << << "abc", << 1, 5 >> >> >>
  /\ agnidi \in DOMAIN saved /\ saved[agnidi].ok
  /\ saved[agnidi].value = ret.value.value
  /\ agnid \in DOMAIN saved /\ saved[agnid].ok
  /\ saved[agnid].value # ret.value.value
  /\ last.op = "save_document" /\ last.doc_id = agnid /\ last.result = "ok"

\* A save replaced the payload the id had.
OverwriteReached ==
  /\ last.op = "save_document" /\ last.result = "ok"
  /\ last.had /\ last.before # <<>>
  /\ last.before # last.document.fields
  /\ load_document(doc_files, last.doc_id).value = last.document.fields

\* A load of an id never saved raised, while its directory existed.
NeverSavedReached ==
  /\ ret.op = "load_document" /\ ret.arg = agnidi
  /\ ret.value.err = "IOError"
  /\ agnidi \notin DOMAIN saved
  /\ agnid \in DOMAIN saved /\ saved[agnid].ok

\* ------------------------------------------------------------ stats claims
\* The record the last read_stats returned or the last write_stats was given.
BaseStats == IF ret.op = "read_stats" THEN ret.value ELSE ret.arg

BaseTotal ==
  IF "total_docs" \in DOMAIN BaseStats THEN BaseStats["total_docs"] ELSE 0

\* After nops increments the record is the base record with total_docs
\* raised by nops, every other key as it was.
IncrementedBy(n) ==
  IF n = 0 THEN read_stats(stats_files) = BaseStats
  ELSE /\ "stats.json" \in DOMAIN stats_files
       /\ DOMAIN stats_files["stats.json"] = DOMAIN BaseStats \cup { "total_docs" }
       /\ stats_files["stats.json"]["total_docs"] = BaseTotal + n
       /\ get_total_docs(stats_files) = BaseTotal + n
       /\ \A k \in DOMAIN BaseStats \ { "total_docs" } :
            stats_files["stats.json"][k] = BaseStats[k]

IncrementsAdd == ret.op \in { "read_stats", "write_stats" } => IncrementedBy(nops)

\* C22: n increments from any stats record, or from no file, leave
\* total_docs at its first value (0 when missing) plus n and every other
\* field as it was; and no operation lowers total_docs.
C22_IncrementsAndNeverDecreases ==
  [][/\ IncrementsAdd'
     /\ get_total_docs(stats_files') >= get_total_docs(stats_files)
  ]_vars

\* C22, amended: the same, but total_docs is lowered by a write_stats that
\* is given a smaller total_docs (or none), and by nothing else.
C22_IncrementsAndWriteOverwrites ==
  [][/\ IncrementsAdd'
     /\ get_total_docs(stats_files') < get_total_docs(stats_files)
          => /\ ret'.op = "write_stats" /\ nops' = 0
             /\ stats_files'["stats.json"] = ret'.arg
     /\ (ret'.op = "write_stats" /\ nops' = 0 /\ (ret' # ret \/ nops # 0))
          => stats_files'["stats.json"] = ret'.arg
  ]_vars

\* Two increments from a file without total_docs that has other keys.
C22_Witness ==
  /\ ret.op = "read_stats"
  /\ ret.value = StatsRecord("0.8.0", -1, TRUE)
  /\ nops = 2
  /\ stats_files["stats.json"]
       = [version |-> "0.8.0", notes |-> "x", total_docs |-> 2]

\* Increments from no stats file.
FromNoFileReached ==
  /\ ret.op = "read_stats"
  /\ ret.value = [version |-> CurrentVersion, total_docs |-> 0]
  /\ nops = 3
  /\ get_total_docs(stats_files) = 3

\* index, save_segment and search never lower total_docs.
EngineNeverDecreases ==
  [][get_total_docs(stats_files') >= get_total_docs(stats_files)]_vars

\* ----------------------------------------------------------- scorer claim
\* tf[t] * idf(t) / (tf[t] + 1.2) in millionths, a missing tf[t] taken as 0.
TermScore(a, t) ==
  LET tf == IF dict_has(a.current_doc, t) THEN dict_get(a.current_doc, t) ELSE 0
  IN (tf * idf_micro(a.total_docs, dict_get(a.matches, t)) * 10) \div (tf * 10 + 12)

RECURSIVE SumOver(_, _)
SumOver(a, ts) ==
  IF ts = {} THEN 0
  ELSE LET t == CHOOSE u \in ts : TRUE IN TermScore(a, t) + SumOver(a, ts \ { t })

\* A score in millionths to two decimals, in hundredths.
TwoDecimals(micro) == (micro + 5000) \div 10000

\* The arguments of the three calls of test_bm25_relevance.
Example(dfs, tfs, n) ==
  [terms |-> IF Len(dfs) = 1 THEN << << hello, << 0 >> >> >>
             ELSE << << hello, << 0 >> >>, << world, << 1 >> >> >>,
   matches |-> dfs, current_doc |-> tfs, total_docs |-> n]

Examples ==
  << [args |-> Example(<< << hello, 7 >> >>, << << hello, 3 >> >>, 17),
      score |-> 56],
     [args |-> Example(<< << hello, 25 >> >>, << << hello, 5 >> >>, 175),
      score |-> 64],
     [args |-> Example(<< << hello, 25 >>, << world, 7 >> >>,
                       << << hello, 5 >>, << world, 3 >> >>, 175),
      score |-> 68] >>

\* C24: bm25_relevance is 0.5 + (sum over the terms of
\* tf * idf / (tf + 1.2)) / (2 * |T|), a missing tf taken as 0, and gives
\* 0.56, 0.64 and 0.68 to two decimals on the three examples.
C24_Bm25Formula ==
  (ret.op = "bm25_relevance"
     /\ \A t \in dict_keys(ret.arg.terms) :
          dict_get(ret.arg.matches, t) <= ret.arg.total_docs)
  => /\ ret.value.err = "none"
     /\ ret.value.score
          = 500000 + SumOver(ret.arg, dict_keys(ret.arg.terms))
                       \div (2 * Cardinality(dict_keys(ret.arg.terms)))
     /\ \A e \in 1..Len(Examples) :
          ret.arg = Examples[e].args
            => TwoDecimals(ret.value.score) = Examples[e].score

\* The third example was scored, and a call with a missing tf.
C24_Witness ==
  /\ ret.op = "bm25_relevance"
  /\ ret.arg = Examples[3].args
  /\ TwoDecimals(ret.value.score) = 68

MissingTfReached ==
  /\ ret.op = "bm25_relevance"
  /\ ret.arg.terms = Examples[3].args.terms
  /\ ret.arg.matches = Examples[3].args.matches
  /\ ret.arg.total_docs = 175
  /\ ret.arg.current_doc = << << hello, 5 >> >>
  /\ ret.value = [err |-> "none", score |-> 570125]

FirstExamplesReached ==
  /\ ret.op = "bm25_relevance"
  /\ ret.arg = Examples[1].args
  /\ ret.value = [err |-> "none", score |-> 555848]

\* ------------------------------------------------- claims on index by steps
\* The document ids of the postings of a segment, and of all segments.
IdsOfLines(lines) ==
  UNION { dict_keys(json_loads(parse_record(lines[i])[2]).value) :
            i \in 1..Len(lines) }

PostedIds == UNION { IdsOfLines(index_files[f]) : f \in DOMAIN index_files }

FailedMidwayReached ==
  /\ calls[1].pc = "idle" /\ calls[1].result = "OSError"
  /\ calls[1].doc_id \in PostedIds
  /\ index_ok = 0 /\ nops = 1
  /\ load_document(doc_files, calls[1].doc_id).ok

\* A step that is a search.
IsSearchNow == last' # last /\ last'.op = "search"

\* The call of index is between two of its steps.
Busy == calls[1].pc \in { "open", "rename", "stats" }

\* The number of document ids in the posting of a term.
Df(t) == Len(Posting(t))

\* Every term of the query has a posting.
AllStored(query) == \A t \in QueryTerms(query) : Df(t) >= 1

\* C26: a search made between the steps of a call of index on a store
\* that holds documents returns: the document frequency it reads never
\* makes (N - df + 1) / df zero or negative.
C26_SearchDuringIndexReturns ==
  [][(/\ IsSearchNow /\ Busy
      /\ TotalDocs > 0 /\ last'.query # <<>>
      /\ AllStored(last'.query))
       => /\ last'.found.err = "none"
          /\ \A t \in QueryTerms(last'.query) : TotalDocs - Df(t) + 1 > 0
  ]_vars

\* The terms that have a record in some segment.
StoredTerms ==
  UNION { { parse_record(index_files[f][i])[1] : i \in 1..Len(index_files[f]) } :
            f \in DOMAIN index_files }

\* Every call of index begun so far has returned True.
AllReturned == calls[1].pc = "idle" /\ index_ok = nops

\* C27: after index calls that all returned True on a freshly created
\* store, every stored term has between 1 and total_docs documents, and a
\* search whose terms are all stored does not fail.
C27_FrequencyWithinTotal ==
  AllReturned
  => /\ \A t \in StoredTerms : Df(t) >= 1 /\ Df(t) <= TotalDocs
     /\ \A q \in SearchQueries :
          (q # <<>> /\ AllStored(q))
            => /\ \A t \in QueryTerms(q) : TotalDocs - Df(t) + 1 > 0
               /\ search(index_files, doc_files, stats_files, q, 0, 20).err = "none"

\* Two documents with the term fun were indexed and a search of fun found
\* both.
C27_Witness ==
  /\ AllReturned /\ nops = 2
  /\ Df(fun) = 2 /\ TotalDocs = 2
  /\ last.op = "search" /\ last.query = fun
  /\ last.found.err = "none" /\ last.found.total_hits = 2

\* One document indexed twice: its terms have one document of two.
ReindexedReached ==
  /\ AllReturned /\ nops = 2
  /\ Df(fun) = 1 /\ TotalDocs = 2

\* The number of calls of the scorer a search makes: one for each document
\* that collect_results counted.
ScorerCalls(query) ==
  Len(collect_results(index_files, parse_query(query), 1, <<>>, <<>>).per_doc_counts)

\* C29: a query that is not empty and gives no term, on a store with
\* total_docs > 0, returns no hit and no result without error, and the
\* scorer is not called with an empty set of terms.
C29_NoTermsNoHits ==
  [][(IsSearchNow /\ TotalDocs > 0 /\ last'.query # <<>>)
       => /\ parse_query(last'.query) = <<>>
               => last'.found = Found("none", 0, <<>>)
          /\ ScorerCalls(last'.query) > 0 => parse_query(last'.query) # <<>>
  ]_vars

\* A search of ", !" came back empty from a store that holds a document.
C29_Witness ==
  /\ last.op = "search" /\ last.query = << ",", " ", "!" >>
  /\ last.found = Found("none", 0, <<>>)
  /\ TotalDocs > 0 /\ PostedIds # {}

\* No search of a query without terms is made on a store that holds
\* documents.
NoTermlessSearch ==
  [][~(/\ IsSearchNow /\ TotalDocs > 0 /\ last'.query # <<>>
       /\ parse_query(last'.query) = <<>>)]_vars

BothReturned ==
  /\ nops = 2
  /\ \A c \in Callers : calls[c].pc = "idle" /\ calls[c].result = "ok"
  /\ calls[1].doc_id # calls[2].doc_id

\* The renames of the two calls that replaced a segment other than the one
\* the call had read.
StaleRenames == calls[1].stale \cup calls[2].stale

\* C23: two calls of index for different document ids that share a term,
\* interleaved, can both return True and leave one id only in the posting
\* of the term; this happens only when a call renamed over a segment that
\* was no longer the one it had read and merged onto.
C23_LostOnlyWhenStale ==
  BothReturned
  => /\ dict_keys(Posting(fun)) # {}
     /\ dict_keys(Posting(fun)) \subseteq { calls[1].doc_id, calls[2].doc_id }
     /\ make_segment_name(fun) \notin StaleRenames
          => dict_keys(Posting(fun)) = { calls[1].doc_id, calls[2].doc_id }

\* Both calls returned True and the posting of fun has one of the two ids:
\* the later rename was of a merge onto the segment both had read.
C23_Witness ==
  /\ BothReturned
  /\ Cardinality(dict_keys(Posting(fun))) = 1
  /\ make_segment_name(fun) \in StaleRenames
  /\ index_ok = 2

\* The two calls interleaved without loss: the second read what the first
\* had renamed.
BothPostedReached ==
  /\ BothReturned
  /\ dict_keys(Posting(fun)) = { calls[1].doc_id, calls[2].doc_id }

====
